---- MODULE Spec2Model ----
(***************************************************************************)
(* Model of the ORB / FVG / engulfing strategy engine of AssetManager:     *)
(*   backend/app/agents/strategies/engine/circuit_breaker.py               *)
(*   backend/app/agents/strategies/engine/orb_fvg_engine.py                *)
(*   backend/app/agents/strategies/engine/indicators.py                    *)
(*   backend/app/agents/strategies/engine/models.py                        *)
(*                                                                         *)
(* Prices and volumes are integers (one unit = one price step); fractions  *)
(* of the account are integers too (one unit = 0.5 % = the default         *)
(* risk_per_trade).  Ratios of the configuration are pairs <<num, den>>    *)
(* and every comparison with a ratio is cross-multiplied.                  *)
(***************************************************************************)
EXTENDS Integers, Sequences, FiniteSets, TLC

VARIABLES
    \* ---- CircuitBreaker: constructor fields
    max_daily_losses,
    max_daily_drawdown_pct,
    max_monthly_drawdown_pct,
    \* ---- CircuitBreaker: private state
    _daily_losses,
    _daily_drawdown_pct,
    _monthly_drawdown_pct,
    _triggered,
    _triggered_reason,
    _callbacks,
    \* ---- CircuitBreaker: what the caller of the last method observed
    cb_op,          \* the last method called
    cb_arg,         \* its argument (loss_pct, gain_pct), 0 when it takes none
    cb_ret,         \* its return value
    cb_raised,      \* whether it raised
    cb_invoked,     \* callbacks invoked since the last new_day, in order
    cb_loss_calls,  \* record_loss calls since the last new_day
    cb_dd_reached,  \* some record_loss since the last new_day saw a drawdown limit reached
    \* ---- ORBFVGEngine.run_session: arguments
    m5_candles,
    m1_candles,
    account_size,
    config,
    \* ---- ORBFVGEngine.run_session: locals
    pc,             \* "idle", "start" (line 63), "loop" (line 79), "done" (returned)
    idx,            \* the loop index of line 79 (0-based, as in the source)
    orb,
    state,          \* the SessionState of line 71
    atr_m1,
    avg_vol_m1,
    \* ---- ORBFVGEngine.run_session: what the caller observes
    ret,            \* "pending", None or "TradeSignal"
    signal,         \* the TradeSignal returned
    \* ---- ORBFVGEngine.run_session: history of the call
    m1_access,      \* some fine bar has been read
    breakout_idx,   \* index of the bar accepted as the breakout, -1 before
    gap_idx,        \* index of the bar on which the gap was set, -1 before
    \* ---- a caller of run_session: the results of its earlier calls
    calls,
    \* ---- BacktestRunner._simulate_trade: arguments and result
    sim_signal,
    remaining_m1,
    sim_pip_value,
    record,         \* the TradeRecord returned, NoRecord before
    \* ---- BacktestRunner._split_into_sessions: arguments and result
    split_m1,
    split_m5,
    split_sessions, \* the list returned, << >> before
    split_done,
    \* ---- ORBKPICalculator.compute: arguments and result
    kpi_trades,
    kpi_initial_equity,
    kpi_trading_days,
    kpi_result,     \* the KPIResult returned, NoKPI before
    \* ---- BacktestRunner.run: argument, fetched bars, locals of run and of
    \* ---- _run_session_loop, result
    run_config,     \* the BacktestConfig
    strategy_cfg,   \* run_config.strategy_config()
    fetched,        \* what _fetch_candles returned: [m1 |-> ..., m5 |-> ...]
    rpc,            \* "idle", "run" (line 129), "head" (line 231), "engine" (line 256), "returned"
    sessions,
    s_idx,          \* sessions[s_idx] is the session of the current iteration
    trades,
    trading_days,
    missing_days,
    current_equity,
    last_month,
    result,         \* the BacktestResult, NoResult before
    \* ---- BacktestRunner.run: history of the call
    evaluated,      \* the indices of the sessions passed to run_session
    skipped,        \* the indices of the sessions skipped at line 251
    notified,       \* the breaker calls of lines 244-287, in order
    \* ---- StrategyFactory and SimulationService
    _registry,      \* the names registered
    _results,       \* the sim_ids of the stored results
    svc_op,         \* the last method called
    svc_args,       \* its arguments: the strategy name, whether bars were fetched
    svc_outcome,    \* what its caller got
    svc_registry,   \* _registry when the last method was called
    \* ---- BootstrapAnalyzer
    _lib,           \* None or the loaded library
    boot_trades,
    boot_iterations,
    boot_ret,       \* what run_bootstrap returned, NoBootstrap before
    boot_trials     \* resampling trials run by the last call

breakerVars == << max_daily_losses, max_daily_drawdown_pct, max_monthly_drawdown_pct,
                  _daily_losses, _daily_drawdown_pct, _monthly_drawdown_pct,
                  _triggered, _triggered_reason, _callbacks,
                  cb_op, cb_arg, cb_ret, cb_raised, cb_invoked, cb_loss_calls, cb_dd_reached >>

engineVars == << m5_candles, m1_candles, account_size, config, pc, idx, orb, state,
                 atr_m1, avg_vol_m1, ret, signal, m1_access, breakout_idx, gap_idx >>

callerVars == << calls >>

simVars == << sim_signal, remaining_m1, sim_pip_value, record >>

splitVars == << split_m1, split_m5, split_sessions, split_done >>

kpiVars == << kpi_trades, kpi_initial_equity, kpi_trading_days, kpi_result >>

runnerVars == << run_config, strategy_cfg, fetched, rpc, sessions, s_idx, trades, trading_days,
                 missing_days, current_equity, last_month, result,
                 evaluated, skipped, notified >>

\* what neither the CircuitBreaker nor run_session touches
serviceVars == << _registry, _results, svc_op, svc_args, svc_outcome, svc_registry >>

bootVars == << _lib, boot_trades, boot_iterations, boot_ret, boot_trials >>

restVars == << callerVars, simVars, splitVars, kpiVars, runnerVars, serviceVars, bootVars >>

vars == << breakerVars, engineVars, restVars >>

\* Python's None, as a return value and as the reason of a breaker not tripped
None == "None"
NoReason == [kind |-> None, value |-> 0, max |-> 0]

(***************************************************************************)
(* Bounds of the model                                                     *)
(***************************************************************************)
MaxLossLimit == 3       \* max_daily_losses is drawn from 1..MaxLossLimit
MaxLossCalls == 4       \* record_loss calls per day explored
MaxLossPct == 2         \* loss_pct and gain_pct are drawn from 0..MaxLossPct
MaxDrawdown == 6        \* the monthly accumulator is explored up to here
MaxCallbacks == 2       \* callbacks registered

DailyDrawdownLimits == {2, 3}
MonthlyDrawdownLimits == {3, 5}
CallbackKinds == {"returns", "raises"}

(***************************************************************************)
(* CircuitBreaker                                                          *)
(***************************************************************************)

\* TripReason with the loss count compared by > instead of >=.
TripReason_LossGt(losses, dd, mdd) ==
    IF losses > max_daily_losses
    THEN [kind |-> "Daily loss limit reached", value |-> losses, max |-> max_daily_losses]
    ELSE IF dd >= max_daily_drawdown_pct
    THEN [kind |-> "Intraday drawdown limit", value |-> dd, max |-> max_daily_drawdown_pct]
    ELSE IF mdd >= max_monthly_drawdown_pct
    THEN [kind |-> "Monthly drawdown limit", value |-> mdd, max |-> max_monthly_drawdown_pct]
    ELSE NoReason

\* TripReason with the monthly threshold tested first.
TripReason_MonthlyFirst(losses, dd, mdd) ==
    IF mdd >= max_monthly_drawdown_pct
    THEN [kind |-> "Monthly drawdown limit", value |-> mdd, max |-> max_monthly_drawdown_pct]
    ELSE IF losses >= max_daily_losses
    THEN [kind |-> "Daily loss limit reached", value |-> losses, max |-> max_daily_losses]
    ELSE IF dd >= max_daily_drawdown_pct
    THEN [kind |-> "Intraday drawdown limit", value |-> dd, max |-> max_daily_drawdown_pct]
    ELSE NoReason

\* _check, lines 113-129: the reason of the first threshold reached, in the
\* order of the if / elif chain; None when no threshold is reached.  The
\* formatted text is kept as the values it is formatted from.
TripReason(losses, dd, mdd) ==
    IF losses >= max_daily_losses
    THEN [kind |-> "Daily loss limit reached", value |-> losses, max |-> max_daily_losses]
    ELSE IF dd >= max_daily_drawdown_pct
    THEN [kind |-> "Intraday drawdown limit", value |-> dd, max |-> max_daily_drawdown_pct]
    ELSE IF mdd >= max_monthly_drawdown_pct
    THEN [kind |-> "Monthly drawdown limit", value |-> mdd, max |-> max_monthly_drawdown_pct]
    ELSE NoReason

\* TryCallback without the try / except: the exception leaves the loop.
TryCallback_NoExcept(cb) ==
    IF cb = "raises" THEN "propagates" ELSE "returned"

\* _check, lines 136-139: one callback under try / except Exception.
TryCallback(cb) ==
    IF cb = "raises" THEN "caught" ELSE "returned"

\* _check, lines 135-139: the loop over the callbacks, from the i-th on.
RECURSIVE NotifyFrom(_, _)
NotifyFrom(cbs, i) ==
    IF i > Len(cbs)
    THEN [invoked |-> << >>, raised |-> FALSE]
    ELSE IF TryCallback(cbs[i]) = "propagates"
         THEN [invoked |-> << i >>, raised |-> TRUE]
         ELSE LET rest == NotifyFrom(cbs, i + 1)
              IN  [invoked |-> << i >> \o rest.invoked, raised |-> rest.raised]

\* _check without the early return of an already tripped breaker.
_check_NotSticky(losses, dd, mdd) ==
    LET reason == TripReason(losses, dd, mdd)
    IN  IF reason # NoReason
        THEN LET n == NotifyFrom(_callbacks, 1)
             IN  [triggered |-> TRUE, reason |-> reason,
                  ret |-> IF n.raised THEN None ELSE "True",
                  invoked |-> n.invoked, raised |-> n.raised]
        ELSE [triggered |-> _triggered, reason |-> _triggered_reason, ret |-> "False",
              invoked |-> << >>, raised |-> FALSE]

\* _check, lines 108-142, on the counters as record_loss left them.
_check(losses, dd, mdd) ==
    IF _triggered
    THEN [triggered |-> TRUE, reason |-> _triggered_reason, ret |-> "False",
          invoked |-> << >>, raised |-> FALSE]
    ELSE LET reason == TripReason(losses, dd, mdd)
         IN  IF reason # NoReason
             THEN LET n == NotifyFrom(_callbacks, 1)
                  IN  [triggered |-> TRUE, reason |-> reason,
                       ret |-> IF n.raised THEN None ELSE "True",
                       invoked |-> n.invoked, raised |-> n.raised]
             ELSE [triggered |-> FALSE, reason |-> _triggered_reason, ret |-> "False",
                   invoked |-> << >>, raised |-> FALSE]

limits == << max_daily_losses, max_daily_drawdown_pct, max_monthly_drawdown_pct >>

on_trip ==
    /\ Len(_callbacks) < MaxCallbacks
    /\ \E callback \in CallbackKinds :
          _callbacks' = Append(_callbacks, callback)
    /\ cb_op' = "on_trip"
    /\ cb_arg' = 0
    /\ cb_ret' = None
    /\ cb_raised' = FALSE
    /\ UNCHANGED << limits, _daily_losses, _daily_drawdown_pct, _monthly_drawdown_pct,
                    _triggered, _triggered_reason, cb_invoked, cb_loss_calls, cb_dd_reached >>
    /\ UNCHANGED << engineVars, restVars >>

record_loss ==
    /\ _daily_losses < MaxLossCalls
    /\ \E loss_pct \in 0..MaxLossPct :
          /\ _monthly_drawdown_pct + loss_pct <= MaxDrawdown
          /\ cb_arg' = loss_pct
          /\ LET losses == _daily_losses + 1
                 dd     == _daily_drawdown_pct + loss_pct
                 mdd    == _monthly_drawdown_pct + loss_pct
                 c      == _check(losses, dd, mdd)
             IN  /\ _daily_losses' = losses
                 /\ _daily_drawdown_pct' = dd
                 /\ _monthly_drawdown_pct' = mdd
                 /\ _triggered' = c.triggered
                 /\ _triggered_reason' = c.reason
                 /\ cb_ret' = c.ret
                 /\ cb_raised' = c.raised
                 /\ cb_invoked' = cb_invoked \o c.invoked
                 /\ cb_dd_reached' = (cb_dd_reached \/ dd >= max_daily_drawdown_pct
                                                    \/ mdd >= max_monthly_drawdown_pct)
    /\ cb_op' = "record_loss"
    /\ cb_loss_calls' = cb_loss_calls + 1
    /\ UNCHANGED << limits, _callbacks >>
    /\ UNCHANGED << engineVars, restVars >>

Max(a, b) == IF a >= b THEN a ELSE b
Min(a, b) == IF a <= b THEN a ELSE b

\* record_win that resets the loss counter, as its docstring words it.
record_win_ResetsLosses ==
    /\ \E gain_pct \in 0..MaxLossPct :
          /\ _daily_drawdown_pct' = Max(0, _daily_drawdown_pct - gain_pct)
          /\ cb_arg' = gain_pct
    /\ _daily_losses' = 0
    /\ cb_op' = "record_win"
    /\ cb_ret' = None
    /\ cb_raised' = FALSE
    /\ UNCHANGED << limits, _monthly_drawdown_pct, _triggered,
                    _triggered_reason, _callbacks, cb_invoked, cb_loss_calls, cb_dd_reached >>
    /\ UNCHANGED << engineVars, restVars >>

record_win ==
    /\ \E gain_pct \in 0..MaxLossPct :
          /\ _daily_drawdown_pct' = Max(0, _daily_drawdown_pct - gain_pct)
          /\ cb_arg' = gain_pct
    /\ cb_op' = "record_win"
    /\ cb_ret' = None
    /\ cb_raised' = FALSE
    /\ UNCHANGED << limits, _daily_losses, _monthly_drawdown_pct, _triggered,
                    _triggered_reason, _callbacks, cb_invoked, cb_loss_calls, cb_dd_reached >>
    /\ UNCHANGED << engineVars, restVars >>

\* new_day that keeps the count of the day's losses.
ResetDaily_KeepsLosses ==
    /\ _daily_losses' = _daily_losses
    /\ _daily_drawdown_pct' = 0
    /\ _triggered' = FALSE
    /\ _triggered_reason' = NoReason

\* new_day, lines 94-97: the assignments, shared with new_month which calls it.
ResetDaily ==
    /\ _daily_losses' = 0
    /\ _daily_drawdown_pct' = 0
    /\ _triggered' = FALSE
    /\ _triggered_reason' = NoReason

\* new_day that clears the monthly accumulator too.
new_day_ClearsMonth ==
    /\ ResetDaily
    /\ _monthly_drawdown_pct' = 0
    /\ cb_op' = "new_day"
    /\ cb_arg' = 0
    /\ cb_ret' = None
    /\ cb_raised' = FALSE
    /\ cb_invoked' = << >>
    /\ cb_loss_calls' = 0
    /\ cb_dd_reached' = FALSE
    /\ UNCHANGED << limits, _callbacks >>
    /\ UNCHANGED << engineVars, restVars >>

new_day ==
    /\ ResetDaily
    /\ cb_op' = "new_day"
    /\ cb_arg' = 0
    /\ cb_ret' = None
    /\ cb_raised' = FALSE
    /\ cb_invoked' = << >>
    /\ cb_loss_calls' = 0
    /\ cb_dd_reached' = FALSE
    /\ UNCHANGED << limits, _monthly_drawdown_pct, _callbacks >>
    /\ UNCHANGED << engineVars, restVars >>

new_month ==
    /\ ResetDaily
    /\ _monthly_drawdown_pct' = 0
    /\ cb_op' = "new_month"
    /\ cb_arg' = 0
    /\ cb_ret' = None
    /\ cb_raised' = FALSE
    /\ cb_invoked' = << >>
    /\ cb_loss_calls' = 0
    /\ cb_dd_reached' = FALSE
    /\ UNCHANGED << limits, _callbacks >>
    /\ UNCHANGED << engineVars, restVars >>

\* CircuitBreaker(losses, daily, monthly) as constructed
BreakerFresh(losses, daily, monthly) ==
    /\ max_daily_losses = losses
    /\ max_daily_drawdown_pct = daily
    /\ max_monthly_drawdown_pct = monthly
    /\ _daily_losses = 0
    /\ _daily_drawdown_pct = 0
    /\ _monthly_drawdown_pct = 0
    /\ _triggered = FALSE
    /\ _triggered_reason = NoReason
    /\ _callbacks = << >>
    /\ cb_op = "init"
    /\ cb_arg = 0
    /\ cb_ret = None
    /\ cb_raised = FALSE
    /\ cb_invoked = << >>
    /\ cb_loss_calls = 0
    /\ cb_dd_reached = FALSE

BreakerInit ==
    \E losses \in 1..MaxLossLimit, daily \in DailyDrawdownLimits,
       monthly \in MonthlyDrawdownLimits :
          BreakerFresh(losses, daily, monthly)

BreakerNext ==
    \/ on_trip
    \/ record_loss
    \/ record_win
    \/ new_day
    \/ new_month


(***************************************************************************)
(* Fine and coarse bars (CandleRow) and the strategy configuration         *)
(***************************************************************************)
MaxBars == 5            \* fine bars of a session: 0..MaxBars
MaxWait == 2            \* wait_retest_max_m1 is drawn from 0..MaxWait

Candle(o, h, l, c, v) ==
    [timestamp |-> 0, open |-> o, high |-> h, low |-> l, close |-> c, volume |-> v]

\* The fine bars sessions are built from, on the price levels 0..3 around an
\* opening range of low 1 and high 2.
Candles ==
    { Candle(1, 1, 0, 0, 2),    \* falls from the range low to below it
      Candle(1, 1, 0, 0, 0),    \* the same without volume
      Candle(2, 3, 2, 3, 2),    \* rises from the range high to above it
      Candle(3, 3, 2, 2, 2),    \* falls from above the range to its high
      Candle(0, 1, 0, 1, 2),    \* rises from below the range to its low
      Candle(2, 2, 2, 2, 2),    \* flat on the range high
      Candle(1, 1, 1, 1, 2) }   \* flat on the range low

\* The opening coarse bars: range 1.
OpeningCandles == { Candle(1, 2, 1, 2, 2) }

\* timestamp: the bars of a session are stamped in chronological order.
Stamp(bars) == [i \in DOMAIN bars |-> [bars[i] EXCEPT !.timestamp = i]]

\* StrategyConfig with the defaults of models.py; min_range_pips and
\* wait_retest_max_m1 are set per session.
StrategyConfig(min_range, wait_retest) ==
    [ min_range_pips      |-> min_range,
      vol_ruptura_ratio   |-> << 1, 2 >>,       \* 0.50
      body_ratio_breakout |-> << 1, 10 >>,      \* 0.10
      min_fvg_size_atr    |-> << 1, 10 >>,      \* 0.10
      p_cuerpo_min        |-> << 1, 10 >>,      \* 0.10
      p_vol_min           |-> << 1, 2 >>,       \* 0.50
      wait_retest_max_m1  |-> wait_retest,
      rr_target           |-> 3,
      buffer_sl_factor    |-> << 1, 10 >>,      \* 0.10
      swing_lookback      |-> 5,
      risk_per_trade      |-> << 5, 1000 >> ]   \* 0.005

MinRanges == {1, 2}
WaitRetests == 0..MaxWait
AccountSizes == {10000}
SignalIds == {"id_a", "id_b"}

\* a >= b for ratios << num, den >> with positive denominators
RatioGE(a, b) == a[1] * b[2] >= b[1] * a[2]

Abs(x) == IF x < 0 THEN -x ELSE x

RECURSIVE SumVolume(_)
SumVolume(candles) ==
    IF candles = << >> THEN 0
    ELSE candles[1].volume + SumVolume(Tail(candles))

\* Python's candles[-n:]
LastN(candles, n) ==
    IF Len(candles) <= n THEN candles
    ELSE SubSeq(candles, Len(candles) - n + 1, Len(candles))

(***************************************************************************)
(* indicators.py                                                           *)
(***************************************************************************)

\* The true range of the i-th bar, as jesse_rust.atr takes it.
TrueRange(candles, i) ==
    IF i = 1 THEN candles[1].high - candles[1].low
    ELSE Max(candles[i].high - candles[i].low,
             Max(Abs(candles[i].high - candles[i - 1].close),
                 Abs(candles[i].low - candles[i - 1].close)))

\* jesse_rust.atr: Wilder's smoothing of the true range, in whole price units.
\* Only sessions of more than `period` bars reach it.
RECURSIVE SumTrueRange(_, _)
SumTrueRange(candles, i) ==
    IF i = 0 THEN 0 ELSE TrueRange(candles, i) + SumTrueRange(candles, i - 1)

RECURSIVE atr_rust(_, _, _)
atr_rust(candles, period, n) ==
    IF n = period
    THEN SumTrueRange(candles, period) \div period
    ELSE (atr_rust(candles, period, n - 1) * (period - 1) + TrueRange(candles, n)) \div period

compute_ATR(candles, period) ==
    IF Len(candles) < period + 1 THEN 0
    ELSE atr_rust(candles, period, Len(candles))

\* The mean volume, as the ratio << sum, count >>.
compute_avg_volume(candles, period) ==
    IF Len(candles) = 0 THEN << 1, 1 >>
    ELSE IF Len(candles) < period THEN << SumVolume(candles), Len(candles) >>
    ELSE << SumVolume(LastN(candles, period)), period >>

body_ratio(candle) ==
    LET total_range == candle.high - candle.low
    IN  IF total_range = 0 THEN << 0, 1 >>
        ELSE << Abs(candle.close - candle.open), total_range >>

is_bullish(candle) == candle.close > candle.open

is_bearish(candle) == candle.close < candle.open

(***************************************************************************)
(* models.py                                                               *)
(***************************************************************************)
NoFVG == [top |-> 0, bottom |-> 0, midpoint |-> << 0, 1 >>, direction |-> None, size |-> 0]

FVG(top, bottom, direction) ==
    [top |-> top, bottom |-> bottom, midpoint |-> << top + bottom, 2 >>,
     direction |-> direction, size |-> top - bottom]

ORBLevel(high, low, range_, valid) ==
    [high |-> high, low |-> low, range_ |-> range_, valid |-> valid]

NoORB == ORBLevel(0, 0, 0, FALSE)

SessionState ==
    [orb |-> NoORB, fvg |-> NoFVG, setup_active |-> FALSE, retest_countdown |-> 0,
     breakout_detected |-> FALSE, breakout_direction |-> None, trades_today |-> 0]

NoSignal ==
    [signal_id |-> None, timestamp |-> 0, direction |-> None, orh |-> 0, orl |-> 0,
     fvg_top |-> 0, fvg_bottom |-> 0, entry |-> 0, stop |-> 0, tp |-> 0,
     risk_pips |-> 0, position_size |-> << 0, 1 >>, confidence |-> None, atr_m1 |-> 0]

(***************************************************************************)
(* orb_fvg_engine.py: the static helpers                                   *)
(***************************************************************************)


\* _detect_orb that accepts every opening range
_detect_orb_AnyRange(m5_candle, min_range) ==
    ORBLevel(m5_candle.high, m5_candle.low, m5_candle.high - m5_candle.low, TRUE)

_detect_orb(m5_candle, min_range) ==
    LET high == m5_candle.high
        low  == m5_candle.low
        rng  == high - low
    IN  ORBLevel(high, low, rng, rng >= min_range)

\* vol >= avg_vol * ratio, with avg_vol = << sum, count >>
VolumeAtLeast(vol, avg_vol, ratio) ==
    vol * avg_vol[2] * ratio[2] >= avg_vol[1] * ratio[1]

_detect_breakout(candle, prev_candle, orh, orl, avg_vol, cfg) ==
    LET br    == body_ratio(candle)
        vol   == candle.volume
        close == candle.close
        bullish_break == /\ close > orh
                         /\ RatioGE(br, cfg.body_ratio_breakout)
                         /\ VolumeAtLeast(vol, avg_vol, cfg.vol_ruptura_ratio)
        bearish_break == /\ close < orl
                         /\ RatioGE(br, cfg.body_ratio_breakout)
                         /\ VolumeAtLeast(vol, avg_vol, cfg.vol_ruptura_ratio)
    IN  IF bullish_break THEN [valid |-> TRUE, direction |-> "bullish"]
        ELSE IF bearish_break THEN [valid |-> TRUE, direction |-> "bearish"]
        ELSE [valid |-> FALSE, direction |-> None]

\* size >= min_fvg_size_atr * atr_m1, or atr_m1 = 0
FvgSizeOk(size, atr, cfg) ==
    atr = 0 \/ size * cfg.min_fvg_size_atr[2] >= cfg.min_fvg_size_atr[1] * atr

_compute_fvg(c_prev2, c_prev1, c_curr, direction, atr, cfg) ==
    IF direction = "bullish"
    THEN IF c_curr.low > c_prev2.high
            /\ FvgSizeOk(c_curr.low - c_prev2.high, atr, cfg)
         THEN FVG(c_curr.low, c_prev2.high, "bullish")
         ELSE NoFVG
    ELSE IF direction = "bearish"
    THEN IF c_curr.high < c_prev2.low
            /\ FvgSizeOk(c_prev2.low - c_curr.high, atr, cfg)
         THEN FVG(c_prev2.low, c_curr.high, "bearish")
         ELSE NoFVG
    ELSE NoFVG

_price_in_fvg(candle, fvg) ==
    candle.low <= fvg.top /\ candle.high >= fvg.bottom

\* _setup_invalidated with the close beyond the gap cancelling the setup too
\* (the two tests the source leaves as `pass`).
_setup_invalidated_CloseBeyondGap(candle, fvg, orb_, cfg) ==
    IF fvg.direction = "bearish"
    THEN candle.close < fvg.bottom \/ candle.high > orb_.high
    ELSE candle.close > fvg.top \/ candle.low < orb_.low

_setup_invalidated(candle, fvg, orb_, cfg) ==
    IF fvg.direction = "bearish"
    THEN candle.high > orb_.high
    ELSE candle.low < orb_.low

_is_engulfing(curr, prev, direction, atr, avg_vol, cfg) ==
    LET body_size == Abs(curr.close - curr.open)
    IN  IF atr > 0 /\ body_size * cfg.p_cuerpo_min[2] < cfg.p_cuerpo_min[1] * atr
        THEN FALSE
        ELSE IF ~VolumeAtLeast(curr.volume, avg_vol, cfg.p_vol_min)
        THEN FALSE
        ELSE IF direction = "bearish"
        THEN is_bearish(curr) /\ curr.open >= prev.close /\ curr.close <= prev.open
        ELSE is_bullish(curr) /\ curr.open <= prev.close /\ curr.close >= prev.open

RECURSIVE MaxHigh(_)
MaxHigh(candles) ==
    IF Len(candles) = 1 THEN candles[1].high
    ELSE Max(candles[1].high, MaxHigh(Tail(candles)))

RECURSIVE MinLow(_)
MinLow(candles) ==
    IF Len(candles) = 1 THEN candles[1].low
    ELSE Min(candles[1].low, MinLow(Tail(candles)))

_swing_high(candles, lookback) ==
    LET recent == IF Len(candles) >= lookback THEN LastN(candles, lookback) ELSE candles
    IN  IF recent # << >> THEN MaxHigh(recent) ELSE 0

_swing_low(candles, lookback) ==
    LET recent == IF Len(candles) >= lookback THEN LastN(candles, lookback) ELSE candles
    IN  IF recent # << >> THEN MinLow(recent) ELSE 0

\* (account * risk_pct) / (risk_pips * pip_value), as << num, den >>
_calc_position_size(account, risk_pct, risk_pips, pip_value) ==
    IF risk_pips <= 0 \/ pip_value <= 0 THEN << 0, 1 >>
    ELSE << account * risk_pct[1], risk_pct[2] * risk_pips * pip_value >>

_is_premium_signal(curr, prev) ==
    LET body  == Abs(curr.close - curr.open)
        total == curr.high - curr.low
    IN  IF total = 0 THEN FALSE
        ELSE 100 * (total - body) >= 60 * total

\* _build_signal without the test of lines 341-342: a stop distance of 0 is
\* not rejected.
_build_signal_KeepsZeroStop(signal_id, confirm_candle, fvg, orb_, candles, atr, account, cfg, premium) ==
    LET direction == fvg.direction
        buffer    == (cfg.buffer_sl_factor[1] * atr) \div cfg.buffer_sl_factor[2]
        entry     == IF direction = "bearish" THEN fvg.top ELSE fvg.bottom
        stop      == IF direction = "bearish"
                     THEN Max(fvg.top, _swing_high(candles, cfg.swing_lookback)) + buffer
                     ELSE Min(fvg.bottom, _swing_low(candles, cfg.swing_lookback)) - buffer
        risk_pips == Abs(entry - stop)
    IN  [signal_id |-> signal_id,
         timestamp |-> confirm_candle.timestamp,
         direction |-> IF direction = "bearish" THEN "SHORT" ELSE "LONG",
         orh |-> orb_.high,
         orl |-> orb_.low,
         fvg_top |-> fvg.top,
         fvg_bottom |-> fvg.bottom,
         entry |-> entry,
         stop |-> stop,
         tp |-> IF direction = "bearish"
                THEN entry - cfg.rr_target * risk_pips ELSE entry + cfg.rr_target * risk_pips,
         risk_pips |-> risk_pips,
         position_size |-> _calc_position_size(account, cfg.risk_per_trade, risk_pips, 1),
         confidence |-> IF premium THEN "premium" ELSE "standard",
         atr_m1 |-> atr]

\* _build_signal with the target one stop distance from the entry, whatever
\* rr_target is.
_build_signal_TargetAtRisk(signal_id, confirm_candle, fvg, orb_, candles, atr, account, cfg, premium) ==
    LET direction == fvg.direction
        buffer    == (cfg.buffer_sl_factor[1] * atr) \div cfg.buffer_sl_factor[2]
        entry     == IF direction = "bearish" THEN fvg.top ELSE fvg.bottom
        stop      == IF direction = "bearish"
                     THEN Max(fvg.top, _swing_high(candles, cfg.swing_lookback)) + buffer
                     ELSE Min(fvg.bottom, _swing_low(candles, cfg.swing_lookback)) - buffer
        tp        == IF direction = "bearish"
                     THEN entry - Abs(entry - stop)
                     ELSE entry + Abs(entry - stop)
        side      == IF direction = "bearish" THEN "SHORT" ELSE "LONG"
        risk_pips == Abs(entry - stop)
    IN  IF risk_pips = 0 THEN NoSignal
        ELSE [signal_id |-> signal_id,
              timestamp |-> confirm_candle.timestamp,
              direction |-> side,
              orh |-> orb_.high,
              orl |-> orb_.low,
              fvg_top |-> fvg.top,
              fvg_bottom |-> fvg.bottom,
              entry |-> entry,
              stop |-> stop,
              tp |-> tp,
              risk_pips |-> risk_pips,
              position_size |-> _calc_position_size(account, cfg.risk_per_trade, risk_pips, 1),
              confidence |-> IF premium THEN "premium" ELSE "standard",
              atr_m1 |-> atr]

\* _build_signal; NoSignal stands for its None.  The stop-loss buffer
\* buffer_sl_factor * atr_m1 is taken in whole price units.
_build_signal(signal_id, confirm_candle, fvg, orb_, candles, atr, account, cfg, premium) ==
    LET direction == fvg.direction
        buffer    == (cfg.buffer_sl_factor[1] * atr) \div cfg.buffer_sl_factor[2]
        entry     == IF direction = "bearish" THEN fvg.top ELSE fvg.bottom
        stop      == IF direction = "bearish"
                     THEN Max(fvg.top, _swing_high(candles, cfg.swing_lookback)) + buffer
                     ELSE Min(fvg.bottom, _swing_low(candles, cfg.swing_lookback)) - buffer
        tp        == IF direction = "bearish"
                     THEN entry - cfg.rr_target * Abs(entry - stop)
                     ELSE entry + cfg.rr_target * Abs(entry - stop)
        side      == IF direction = "bearish" THEN "SHORT" ELSE "LONG"
        risk_pips == Abs(entry - stop)
    IN  IF risk_pips = 0 THEN NoSignal
        ELSE [signal_id |-> signal_id,
              timestamp |-> confirm_candle.timestamp,
              direction |-> side,
              orh |-> orb_.high,
              orl |-> orb_.low,
              fvg_top |-> fvg.top,
              fvg_bottom |-> fvg.bottom,
              entry |-> entry,
              stop |-> stop,
              tp |-> tp,
              risk_pips |-> risk_pips,
              position_size |-> _calc_position_size(account, cfg.risk_per_trade, risk_pips, 1),
              confidence |-> IF premium THEN "premium" ELSE "standard",
              atr_m1 |-> atr]

(***************************************************************************)
(* orb_fvg_engine.py: run_session                                          *)
(***************************************************************************)

\* line 88 without `and not state.breakout_detected`
AcceptBreakout_Again(bk, st) == bk.valid

\* line 88: a valid breakout is accepted once per session
AcceptBreakout(bk, st) == bk.valid /\ ~st.breakout_detected

\* line 110 with < in place of <=
RetestExpired_Late(st) == st.retest_countdown < 0

\* line 110
RetestExpired(st) == st.retest_countdown <= 0

Return(value, sig) ==
    /\ pc' = "done"
    /\ ret' = value
    /\ signal' = sig

inputs == << m5_candles, m1_candles, account_size, config >>

\* lines 63-77: the guards, the opening range and the two indicators
Start ==
    /\ pc = "start"
    /\ IF m5_candles = << >> \/ m1_candles = << >>
       THEN /\ Return(None, NoSignal)
            /\ UNCHANGED << orb, state, atr_m1, avg_vol_m1, m1_access >>
       ELSE LET o == _detect_orb(m5_candles[1], config.min_range_pips)
            IN  /\ orb' = o
                /\ IF ~o.valid
                   THEN /\ Return(None, NoSignal)
                        /\ UNCHANGED << state, atr_m1, avg_vol_m1, m1_access >>
                   ELSE /\ state' = [SessionState EXCEPT !.orb = o]
                        /\ atr_m1' = compute_ATR(LastN(m1_candles, 20), 14)
                        /\ avg_vol_m1' = compute_avg_volume(LastN(m1_candles, 20), 20)
                        /\ m1_access' = TRUE
                        /\ pc' = "loop"
                        /\ UNCHANGED << ret, signal >>
    /\ UNCHANGED << inputs, idx, breakout_idx, gap_idx >>
    /\ UNCHANGED << breakerVars, restVars >>

\* lines 83-104: PASO 2 and PASO 3 on the bar at idx
BreakoutPhase(candle) ==
    LET has_prev == idx > 0
        bk       == IF has_prev
                    THEN _detect_breakout(candle, m1_candles[idx], orb.high, orb.low,
                                          avg_vol_m1, config)
                    ELSE [valid |-> FALSE, direction |-> None]
        accepted == has_prev /\ AcceptBreakout(bk, state)
        fvg      == IF accepted /\ idx >= 2
                    THEN _compute_fvg(m1_candles[idx - 1], m1_candles[idx], candle,
                                      bk.direction, atr_m1, config)
                    ELSE NoFVG
    IN  /\ state' = [state EXCEPT
                       !.breakout_detected  = IF accepted THEN TRUE ELSE @,
                       !.breakout_direction = IF accepted THEN bk.direction ELSE @,
                       !.fvg                = fvg,
                       !.retest_countdown   = IF fvg # NoFVG
                                              THEN config.wait_retest_max_m1 ELSE @]
        /\ breakout_idx' = IF accepted THEN idx ELSE breakout_idx
        /\ gap_idx' = IF fvg # NoFVG THEN idx ELSE gap_idx
        /\ idx' = idx + 1
        /\ UNCHANGED << pc, ret, signal >>

\* lines 109-138: PASO 4 to PASO 6 on the bar at idx
RetestPhase(candle, signal_id) ==
    IF RetestExpired(state)
    THEN /\ Return(None, NoSignal)
         /\ UNCHANGED << state, idx, breakout_idx, gap_idx >>
    ELSE LET waiting == [state EXCEPT !.retest_countdown = @ - 1]
         IN  IF _setup_invalidated(candle, state.fvg, orb, config)
             THEN /\ state' = waiting
                  /\ Return(None, NoSignal)
                  /\ UNCHANGED << idx, breakout_idx, gap_idx >>
             ELSE LET sig == IF /\ _price_in_fvg(candle, state.fvg)
                                /\ idx > 0
                                /\ _is_engulfing(candle, m1_candles[idx], state.fvg.direction,
                                                 atr_m1, avg_vol_m1, config)
                             THEN _build_signal(signal_id, candle, state.fvg, orb,
                                                SubSeq(m1_candles, 1, idx + 1), atr_m1,
                                                account_size, config,
                                                _is_premium_signal(candle, m1_candles[idx]))
                             ELSE NoSignal
                  IN  IF sig # NoSignal
                      THEN /\ state' = [waiting EXCEPT !.setup_active = TRUE]
                           /\ Return("TradeSignal", sig)
                           /\ UNCHANGED << idx, breakout_idx, gap_idx >>
                      ELSE /\ state' = waiting
                           /\ idx' = idx + 1
                           /\ UNCHANGED << pc, ret, signal, breakout_idx, gap_idx >>

\* lines 79-140: one iteration of the loop over the fine bars
LoopStep ==
    /\ pc = "loop"
    /\ idx < Len(m1_candles)
    /\ \E signal_id \in SignalIds :
          LET candle == m1_candles[idx + 1]
          IN  IF state.fvg = NoFVG
              THEN BreakoutPhase(candle)
              ELSE IF ~state.setup_active
              THEN RetestPhase(candle, signal_id)
              ELSE /\ idx' = idx + 1
                   /\ UNCHANGED << state, pc, ret, signal, breakout_idx, gap_idx >>
    /\ UNCHANGED << inputs, orb, atr_m1, avg_vol_m1, m1_access >>
    /\ UNCHANGED << breakerVars, restVars >>

\* line 142: the bars are exhausted
LoopEnd ==
    /\ pc = "loop"
    /\ idx = Len(m1_candles)
    /\ Return(None, NoSignal)
    /\ UNCHANGED << inputs, idx, orb, state, atr_m1, avg_vol_m1, m1_access,
                    breakout_idx, gap_idx >>
    /\ UNCHANGED << breakerVars, restVars >>

Sessions == UNION { [1..n -> Candles] : n \in 0..MaxBars }

EngineLocalsInit ==
    /\ idx = 0
    /\ orb = NoORB
    /\ state = SessionState
    /\ atr_m1 = 0
    /\ avg_vol_m1 = << 1, 1 >>
    /\ ret = "pending"
    /\ signal = NoSignal
    /\ m1_access = FALSE
    /\ breakout_idx = -1
    /\ gap_idx = -1

\* a call of run_session with its arguments
EngineInit ==
    /\ m5_candles \in { << c >> : c \in OpeningCandles }
    /\ \E bars \in Sessions : m1_candles = Stamp(bars)
    /\ account_size \in AccountSizes
    /\ \E r \in MinRanges, w \in WaitRetests : config = StrategyConfig(r, w)
    /\ pc = "start"
    /\ EngineLocalsInit

\* no call of run_session
EngineIdle ==
    /\ m5_candles = << >>
    /\ m1_candles = << >>
    /\ account_size = 0
    /\ config = StrategyConfig(1, 0)
    /\ pc = "idle"
    /\ EngineLocalsInit

EngineNext ==
    \/ Start
    \/ LoopStep
    \/ LoopEnd

(***************************************************************************)
(* Two calls of run_session with the same arguments, on an opening range   *)
(* of 1..3                                                                 *)
(***************************************************************************)
MaxCalls == 2           \* calls of run_session with the same arguments

WideOpeningCandles == { Candle(1, 3, 1, 3, 2) }

WideCandles ==
    { Candle(2, 2, 2, 2, 2),    \* flat inside the range
      Candle(3, 4, 3, 4, 2),    \* rises from the range high to above it
      Candle(2, 3, 2, 3, 2),    \* rises inside the range to its high
      Candle(1, 2, 1, 2, 2) }   \* rises from the range low

WideMinRanges == {2, 3}

\* the equity passed as account_size: the default account, and an account
\* that earlier losses have used up
WideAccountSizes == {0, 10000}

\* a first call of run_session
EngineWideInit ==
    /\ m5_candles \in { << c >> : c \in WideOpeningCandles }
    /\ \E bars \in UNION { [1..n -> WideCandles] : n \in 0..MaxBars } :
          m1_candles = Stamp(bars)
    /\ account_size \in WideAccountSizes
    /\ \E r \in WideMinRanges, w \in WaitRetests : config = StrategyConfig(r, w)
    /\ pc = "start"
    /\ EngineLocalsInit

\* the caller keeps what run_session returned and calls it again with the
\* same arguments; the locals of lines 71-77 are those of the new call
CallAgain ==
    /\ pc = "done"
    /\ Len(calls) + 1 < MaxCalls
    /\ calls' = Append(calls, [ret |-> ret, signal |-> signal])
    /\ pc' = "start"
    /\ idx' = 0
    /\ orb' = NoORB
    /\ state' = SessionState
    /\ atr_m1' = 0
    /\ avg_vol_m1' = << 1, 1 >>
    /\ ret' = "pending"
    /\ signal' = NoSignal
    /\ m1_access' = FALSE
    /\ breakout_idx' = -1
    /\ gap_idx' = -1
    /\ UNCHANGED inputs
    /\ UNCHANGED << breakerVars, simVars, splitVars, kpiVars, runnerVars, serviceVars, bootVars >>

CallsNext ==
    \/ Start
    \/ LoopStep
    \/ LoopEnd
    \/ CallAgain

(***************************************************************************)
(* backtest_runner.py: _simulate_trade                                     *)
(***************************************************************************)
MaxRemaining == 3       \* fine bars after the confirmation bar: 0..MaxRemaining

\* exit_timestamp = "" of an expired trade; the bars are stamped from 1 on
EmptyTimestamp == 0

TradeRecord(sig, outcome, exit_price, exit_timestamp, pnl_r, pnl_usd, slippage_pips) ==
    [signal |-> sig, outcome |-> outcome, exit_price |-> exit_price,
     exit_timestamp |-> exit_timestamp, pnl_r |-> pnl_r, pnl_usd |-> pnl_usd,
     slippage_pips |-> slippage_pips]

NoRecord == TradeRecord(NoSignal, None, 0, 0, 0, 0, 0)

is_win(rec) == rec.outcome = "win_tp"

is_loss(rec) == rec.outcome = "loss_sl"

\* TouchOutcome with the stop tested before the target.
TouchOutcome_StopFirst(sig, candle) ==
    IF sig.direction = "SHORT"
    THEN IF candle.high >= sig.stop THEN "loss_sl"
         ELSE IF candle.low <= sig.tp THEN "win_tp"
         ELSE None
    ELSE IF candle.low <= sig.stop THEN "loss_sl"
         ELSE IF candle.high >= sig.tp THEN "win_tp"
         ELSE None

\* lines 329-371: the tests of one bar, in the order of the source; None when
\* the bar touches neither level.
TouchOutcome(sig, candle) ==
    IF sig.direction = "SHORT"
    THEN IF candle.low <= sig.tp THEN "win_tp"
         ELSE IF candle.high >= sig.stop THEN "loss_sl"
         ELSE None
    ELSE IF candle.high >= sig.tp THEN "win_tp"
         ELSE IF candle.low <= sig.stop THEN "loss_sl"
         ELSE None

\* ExitRecord with the stop price itself as the exit price of a stopped trade.
ExitRecord_NoSlippage(sig, candle, outcome, pv) ==
    IF outcome = "win_tp"
    THEN TradeRecord(sig, "win_tp", sig.tp, candle.timestamp, 3, sig.risk_pips * pv * 3, 1)
    ELSE TradeRecord(sig, "loss_sl", sig.stop, candle.timestamp, -1,
                     -(sig.risk_pips * pv * 1), 1)

\* lines 331-349 and 353-371: the TradeRecord of a trade closed on `candle`
ExitRecord(sig, candle, outcome, pv) ==
    LET slippage_pips == 1
    IN  IF outcome = "win_tp"
        THEN TradeRecord(sig, "win_tp", sig.tp, candle.timestamp, 3,
                         sig.risk_pips * pv * 3, slippage_pips)
        ELSE TradeRecord(sig, "loss_sl",
                         IF sig.direction = "SHORT"
                         THEN sig.stop + slippage_pips ELSE sig.stop - slippage_pips,
                         candle.timestamp, -1, -(sig.risk_pips * pv * 1), slippage_pips)

RECURSIVE _simulate_trade(_, _, _)
_simulate_trade(sig, remaining, pv) ==
    IF remaining = << >>
    THEN TradeRecord(sig, "expired", sig.entry, EmptyTimestamp, 0, 0, 1)
    ELSE LET candle  == Head(remaining)
             outcome == TouchOutcome(sig, candle)
         IN  IF outcome # None
             THEN ExitRecord(sig, candle, outcome, pv)
             ELSE _simulate_trade(sig, Tail(remaining), pv)

\* A TradeSignal as _build_signal fills it, from the side, the entry, the stop
\* and rr_target.
Signal(side, entry, stop, rr) ==
    [NoSignal EXCEPT
        !.signal_id = "id_a", !.timestamp = 1, !.direction = side,
        !.entry = entry, !.stop = stop,
        !.tp = IF side = "SHORT" THEN entry - rr * Abs(entry - stop)
               ELSE entry + rr * Abs(entry - stop),
        !.risk_pips = Abs(entry - stop),
        !.position_size = _calc_position_size(10000, << 5, 1000 >>, Abs(entry - stop), 1),
        !.confidence = "standard"]

\* long: stop 1, target 5 (or 4); short: stop 4, target 0 (or 1)
SimSignals ==
    { Signal("LONG", 2, 1, 3), Signal("SHORT", 3, 4, 3),
      Signal("LONG", 2, 1, 2), Signal("SHORT", 3, 4, 2) }

\* bars by their low and high, on the price levels 0..5
Range(l, h) == Candle(l, h, l, h, 2)

SimCandles ==
    { Range(2, 3),      \* touches no level
      Range(4, 5),      \* long: target
      Range(1, 2),      \* long: stop
      Range(1, 5),      \* long: target and stop
      Range(0, 1),      \* short: target; long: stop
      Range(0, 4) }     \* short: target and stop

PipValues == {1, 2}

SimIdle ==
    /\ sim_signal = NoSignal
    /\ remaining_m1 = << >>
    /\ sim_pip_value = 1
    /\ record = NoRecord

\* a call of _simulate_trade with its arguments; the bars after the
\* confirmation bar are stamped from 2 on
SimInit ==
    /\ sim_signal \in SimSignals
    /\ \E bars \in UNION { [1..n -> SimCandles] : n \in 0..MaxRemaining } :
          remaining_m1 = [i \in DOMAIN bars |-> [bars[i] EXCEPT !.timestamp = i + 1]]
    /\ sim_pip_value \in PipValues
    /\ record = NoRecord

Simulate ==
    /\ record = NoRecord
    /\ sim_signal # NoSignal
    /\ record' = _simulate_trade(sim_signal, remaining_m1, sim_pip_value)
    /\ UNCHANGED << sim_signal, remaining_m1, sim_pip_value >>
    /\ UNCHANGED << breakerVars, engineVars, callerVars, splitVars, kpiVars, runnerVars, serviceVars, bootVars >>

SimNext == Simulate

(***************************************************************************)
(* kpi_calculator.py: ORBKPICalculator.compute                             *)
(*                                                                         *)
(* A float is the ratio << num, den >> of two integers, den > 0; << 1, 0 >> *)
(* is float("inf").  The Sharpe ratio and the CAGR, which need a square    *)
(* root and a power, are kept as terms: the function and its arguments.    *)
(***************************************************************************)
MaxTrades == 3          \* trades of a list given to compute: 0..MaxTrades

Inf == << 1, 0 >>

RatioEq(a, b) == a[1] * b[2] = b[1] * a[2]

RatioMul(a, b) == << a[1] * b[1], a[2] * b[2] >>

RatioSub(a, b) == << a[1] * b[2] - b[1] * a[2], a[2] * b[2] >>

\* the integer nearest to n / d, d > 0, halves to the even one
RoundDiv(n, d) ==
    LET q == n \div d
        r == n % d
    IN  IF 2 * r > d THEN q + 1
        ELSE IF 2 * r < d THEN q
        ELSE IF q % 2 = 0 THEN q ELSE q + 1

\* round(x, 4) and round(x, 2)
Round4(x) == IF x[2] = 0 THEN x ELSE << RoundDiv(x[1] * 10000, x[2]), 10000 >>

Round2(x) == IF x[2] = 0 THEN x ELSE << RoundDiv(x[1] * 100, x[2]), 100 >>

ZeroTerm == [fn |-> "0.0", args |-> << >>]

KPIResult(total_trades, wins, losses, win_rate, expectancy_r, profit_factor, max_drawdown_pct, sharpe_ratio, avg_rr_realized, total_r, final_equity, cagr) ==
    [total_trades |-> total_trades, wins |-> wins, losses |-> losses,
     win_rate |-> win_rate, expectancy_r |-> expectancy_r,
     profit_factor |-> profit_factor, max_drawdown_pct |-> max_drawdown_pct,
     sharpe_ratio |-> sharpe_ratio, avg_rr_realized |-> avg_rr_realized,
     total_r |-> total_r, final_equity |-> final_equity, cagr |-> cagr]

\* no KPIResult yet
NoKPI ==
    KPIResult(-1, 0, 0, << 0, 1 >>, << 0, 1 >>, << 0, 1 >>, << 0, 1 >>, ZeroTerm,
              << 0, 1 >>, << 0, 1 >>, << 0, 1 >>, ZeroTerm)

RECURSIVE SelectRecords(_, _)
SelectRecords(recs, outcome) ==
    IF recs = << >> THEN << >>
    ELSE IF Head(recs).outcome = outcome
         THEN << Head(recs) >> \o SelectRecords(Tail(recs), outcome)
         ELSE SelectRecords(Tail(recs), outcome)

RECURSIVE SumPnlR(_)
SumPnlR(recs) == IF recs = << >> THEN 0 ELSE Head(recs).pnl_r + SumPnlR(Tail(recs))

RECURSIVE SumAbsPnlR(_)
SumAbsPnlR(recs) == IF recs = << >> THEN 0 ELSE Abs(Head(recs).pnl_r) + SumAbsPnlR(Tail(recs))

RECURSIVE SumPnlUsd(_)
SumPnlUsd(recs) == IF recs = << >> THEN 0 ELSE Head(recs).pnl_usd + SumPnlUsd(Tail(recs))

RECURSIVE SumAbsPnlUsd(_)
SumAbsPnlUsd(recs) ==
    IF recs = << >> THEN 0 ELSE Abs(Head(recs).pnl_usd) + SumAbsPnlUsd(Tail(recs))

\* EquityWalk that starts again from the initial equity at every trade.
EquityWalk_LastTradeOnly(recs, initial_equity, n) ==
    [equity |-> IF n = 0 THEN initial_equity ELSE initial_equity + recs[n].pnl_usd,
     peak |-> initial_equity, max_dd |-> << 0, 1 >>, daily_returns |-> << >>]

\* lines 72-79: the running equity, the peak, the largest drawdown and the
\* per-trade returns after the trades recs[1..n]
RECURSIVE EquityWalk(_, _, _)
EquityWalk(recs, initial_equity, n) ==
    IF n = 0
    THEN [equity |-> initial_equity, peak |-> initial_equity, max_dd |-> << 0, 1 >>,
          daily_returns |-> << >>]
    ELSE LET w           == EquityWalk(recs, initial_equity, n - 1)
             prev_equity == w.equity
             equity      == prev_equity + recs[n].pnl_usd
             ret_        == IF prev_equity > 0
                            THEN << equity - prev_equity, prev_equity >> ELSE << 0, 1 >>
             peak        == IF equity > w.peak THEN equity ELSE w.peak
             dd          == IF peak > 0 THEN << peak - equity, peak >> ELSE << 0, 1 >>
         IN  [equity |-> equity, peak |-> peak,
              max_dd |-> IF RatioGE(w.max_dd, dd) THEN w.max_dd ELSE dd,
              daily_returns |-> Append(w.daily_returns, ret_)]

\* lines 82-88: 0.0 with fewer than two returns or without variance
Sharpe(daily_returns) ==
    IF Len(daily_returns) > 1
       /\ \E i \in DOMAIN daily_returns : ~RatioEq(daily_returns[i], daily_returns[1])
    THEN [fn |-> "mean / stdev * sqrt(252)", args |-> daily_returns]
    ELSE ZeroTerm

\* _cagr, lines 115-128
_cagr(start, end, days) ==
    IF start <= 0 \/ days <= 0 THEN ZeroTerm
    ELSE IF end <= 0 THEN [fn |-> "-1.0", args |-> << >>]
    ELSE IF end = start THEN ZeroTerm
    ELSE [fn |-> "ratio ** (252 / trading_days) - 1", args |-> << end, start, days >>]

\* compute without the early return of lines 39-45
compute_NoEmptyCase(trades_, initial_equity, trading_days_) ==
    LET wins         == SelectRecords(trades_, "win_tp")
        losses       == SelectRecords(trades_, "loss_sl")
        total_trades == Len(trades_)
        gross_profit == SumPnlUsd(wins)
        gross_loss   == SumAbsPnlUsd(losses)
        w            == EquityWalk(trades_, initial_equity, Len(trades_))
    IN  KPIResult(total_trades, Len(wins), Len(losses), << 0, 1 >>, << 0, 1 >>,
                  IF gross_loss > 0 THEN Round4(<< gross_profit, gross_loss >>) ELSE Inf,
                  Round4(w.max_dd), Sharpe(w.daily_returns), << 0, 1 >>,
                  Round4(<< SumPnlR(trades_), 1 >>), Round2(<< w.equity, 1 >>),
                  _cagr(initial_equity, w.equity, trading_days_))

compute(trades_, initial_equity, trading_days_) ==
    IF trades_ = << >>
    THEN KPIResult(0, 0, 0, << 0, 1 >>, << 0, 1 >>, << 0, 1 >>, << 0, 1 >>, ZeroTerm,
                   << 0, 1 >>, << 0, 1 >>, << initial_equity, 1 >>, ZeroTerm)
    ELSE LET wins         == SelectRecords(trades_, "win_tp")
             losses       == SelectRecords(trades_, "loss_sl")
             total_trades == Len(trades_)
             n_wins       == Len(wins)
             n_losses     == Len(losses)
             win_rate     == << n_wins, total_trades >>
             avg_win_r    == IF wins # << >> THEN << SumPnlR(wins), n_wins >> ELSE << 0, 1 >>
             avg_loss_r   == IF losses # << >>
                             THEN << SumAbsPnlR(losses), n_losses >> ELSE << 0, 1 >>
             loss_rate    == RatioSub(<< 1, 1 >>, win_rate)
             expectancy_r == RatioSub(RatioMul(win_rate, avg_win_r),
                                      RatioMul(loss_rate, avg_loss_r))
             gross_profit == SumPnlUsd(wins)
             gross_loss   == SumAbsPnlUsd(losses)
             profit_factor == IF gross_loss > 0 THEN << gross_profit, gross_loss >> ELSE Inf
             w            == EquityWalk(trades_, initial_equity, Len(trades_))
             avg_rr       == IF wins # << >> THEN << SumAbsPnlR(wins), n_wins >> ELSE << 0, 1 >>
         IN  KPIResult(total_trades, n_wins, n_losses, Round4(win_rate),
                       Round4(expectancy_r), Round4(profit_factor), Round4(w.max_dd),
                       Sharpe(w.daily_returns), Round4(avg_rr),
                       Round4(<< SumPnlR(trades_), 1 >>), Round2(<< w.equity, 1 >>),
                       _cagr(initial_equity, w.equity, trading_days_))

\* the records compute reads: outcome, pnl_r and pnl_usd
KpiRecord(outcome, pnl_r, pnl_usd) ==
    TradeRecord(NoSignal, outcome, 0, 0, pnl_r, pnl_usd, 1)

KpiRecords ==
    { KpiRecord("win_tp", 3, 300), KpiRecord("loss_sl", -1, -100),
      KpiRecord("expired", 0, 0), KpiRecord("win_tp", 3, 1) }

InitialEquities == {0, 3, 10000}

TradingDayCounts == {0, 1, 252}

KpiInit ==
    /\ kpi_trades \in UNION { [1..n -> KpiRecords] : n \in 0..MaxTrades }
    /\ kpi_initial_equity \in InitialEquities
    /\ kpi_trading_days \in TradingDayCounts
    /\ kpi_result = NoKPI

Compute ==
    /\ kpi_result = NoKPI
    /\ kpi_initial_equity \in InitialEquities
    /\ kpi_result' = compute(kpi_trades, kpi_initial_equity, kpi_trading_days)
    /\ UNCHANGED << kpi_trades, kpi_initial_equity, kpi_trading_days >>
    /\ UNCHANGED << breakerVars, engineVars, callerVars, simVars, splitVars, runnerVars, serviceVars, bootVars >>

KpiNext == Compute

(***************************************************************************)
(* backtest_runner.py: _split_into_sessions                                *)
(*                                                                         *)
(* A timestamp is the number of minutes day * 1440 + hour * 60 + minute,   *)
(* day counting the calendar days from 1; a timestamp that                 *)
(* datetime.fromisoformat rejects is 0.                                    *)
(***************************************************************************)
MaxFine == 2            \* fine bars given to _split_into_sessions: 0..MaxFine
MaxCoarse == 2          \* coarse bars given to _split_into_sessions: 0..MaxCoarse

_SESSION_START_H == 9
_SESSION_START_M == 30
_SESSION_END_H == 11
_SESSION_END_M == 0

Malformed == 0

TimeStamp(day, hour, minute) == day * 1440 + hour * 60 + minute

\* datetime.fromisoformat(...): the date, the hour and the minute
DateOf(ts) == ts \div 1440
HourOf(ts) == (ts % 1440) \div 60
MinuteOf(ts) == ts % 60

\* in_window with the end of the window left out
in_window_EndExcluded(ts) ==
    \/ HourOf(ts) = _SESSION_START_H /\ MinuteOf(ts) >= _SESSION_START_M + 5
    \/ HourOf(ts) > _SESSION_START_H /\ HourOf(ts) < _SESSION_END_H

\* lines 447-453
in_window(ts) ==
    \/ HourOf(ts) = _SESSION_START_H /\ MinuteOf(ts) >= _SESSION_START_M + 5
    \/ HourOf(ts) > _SESSION_START_H /\ HourOf(ts) < _SESSION_END_H
    \/ HourOf(ts) = _SESSION_END_H /\ MinuteOf(ts) = _SESSION_END_M

\* line 435
is_opening(ts) == HourOf(ts) = _SESSION_START_H /\ MinuteOf(ts) = _SESSION_START_M

\* sessions.setdefault(d, {"date": d, "m5": [], "m1": []})
SetDefault(dict, d) ==
    IF d \in DOMAIN dict THEN dict
    ELSE dict @@ (d :> [date |-> d, m5 |-> << >>, m1 |-> << >>])

\* lines 429-438: the dict after the coarse bars m5[1..n]
RECURSIVE GroupM5(_, _)
GroupM5(m5, n) ==
    IF n = 0 THEN << >>
    ELSE LET dict == GroupM5(m5, n - 1)
             c    == m5[n]
             d    == DateOf(c.timestamp)
         IN  IF c.timestamp = Malformed THEN dict
             ELSE IF is_opening(c.timestamp)
             THEN [SetDefault(dict, d) EXCEPT ![d].m5 = Append(@, c)]
             ELSE dict

\* lines 440-460: the dict after the fine bars m1[1..n]
RECURSIVE GroupM1(_, _, _)
GroupM1(dict0, m1, n) ==
    IF n = 0 THEN dict0
    ELSE LET dict == GroupM1(dict0, m1, n - 1)
             c    == m1[n]
             d    == DateOf(c.timestamp)
         IN  IF c.timestamp = Malformed THEN dict
             ELSE IF in_window(c.timestamp)
             THEN [SetDefault(dict, d) EXCEPT ![d].m1 = Append(@, c)]
             ELSE dict

\* line 462: sorted(sessions.values(), key=lambda s: s["date"])
RECURSIVE SortedByDate(_, _)
SortedByDate(dict, dates) ==
    IF dates = {} THEN << >>
    ELSE LET d == CHOOSE x \in dates : \A y \in dates : x <= y
         IN  << dict[d] >> \o SortedByDate(dict, dates \ {d})

\* _split_into_sessions that keeps only the dates with bars of both
\* granularities.
_split_into_sessions_DropsIncomplete(m1, m5) ==
    LET dict == GroupM1(GroupM5(m5, Len(m5)), m1, Len(m1))
    IN  SortedByDate(dict, { d \in DOMAIN dict : dict[d].m1 # << >> /\ dict[d].m5 # << >> })

_split_into_sessions(m1, m5) ==
    LET dict == GroupM1(GroupM5(m5, Len(m5)), m1, Len(m1))
    IN  SortedByDate(dict, DOMAIN dict)

\* a bar of a flat list: its timestamp, and its place in the list as volume
Bars(stamps) == [i \in DOMAIN stamps |-> [Candle(1, 2, 1, 2, i) EXCEPT !.timestamp = stamps[i]]]

SplitDays == {1, 2}

FineStamps ==
    { TimeStamp(d, t[1], t[2]) :
        d \in SplitDays, t \in { << 9, 34 >>, << 9, 35 >>, << 10, 0 >>, << 11, 0 >>, << 11, 1 >> } }
    \cup { Malformed }

CoarseStamps ==
    { TimeStamp(d, t[1], t[2]) : d \in SplitDays, t \in { << 9, 30 >>, << 9, 35 >> } }
    \cup { Malformed }

SplitInit ==
    /\ \E stamps \in UNION { [1..n -> FineStamps] : n \in 0..MaxFine } :
          split_m1 = Bars(stamps)
    /\ \E stamps \in UNION { [1..n -> CoarseStamps] : n \in 0..MaxCoarse } :
          split_m5 = Bars(stamps)
    /\ split_sessions = << >>
    /\ split_done = FALSE

Split ==
    /\ ~split_done
    /\ split_sessions' = _split_into_sessions(split_m1, split_m5)
    /\ split_done' = TRUE
    /\ UNCHANGED << split_m1, split_m5 >>
    /\ UNCHANGED << breakerVars, engineVars, callerVars, simVars, kpiVars, runnerVars, serviceVars, bootVars >>

SplitNext == Split

(***************************************************************************)
(* backtest_runner.py: BacktestRunner.run and _run_session_loop            *)
(*                                                                         *)
(* A date is (year * 12 + month - 1) * 31 + day - 1, so that dates are     *)
(* ordered as the calendar orders them; a timestamp is date * 1440 +       *)
(* minute of the day.  The fractions given to the CircuitBreaker and its   *)
(* limits are counted in units of 1 / (FractionScale * account_size).      *)
(***************************************************************************)
MaxSessions == 3        \* dates of the fetched bars: 0..MaxSessions

FractionScale == 1000

Date(year, month, day) == (year * 12 + month - 1) * 31 + day - 1

\* session_date.month
MonthOf(d) == ((d \div 31) % 12) + 1

\* last_month = None of line 222
NoMonth == 0

BacktestConfig(account, pv, params) ==
    [account_size |-> account, pip_value |-> pv, strategy_params |-> params]

\* StrategyConfig.default(): on whole prices min_range_pips = 0.1 admits the
\* ranges that 1 admits
DefaultStrategyConfig ==
    [max_daily_losses |-> 2,
     max_daily_drawdown_pct |-> << 2, 100 >>,
     max_monthly_drawdown_pct |-> << 10, 100 >>] @@ StrategyConfig(1, 30)

\* BacktestConfig.strategy_config, lines 47-48
strategy_config(c) ==
    IF DOMAIN c.strategy_params = {} THEN DefaultStrategyConfig
    ELSE c.strategy_params @@ DefaultStrategyConfig

BacktestResult(trades_, kpis, trading_days_, missing_data_days) ==
    [trades |-> trades_, kpis |-> kpis, trading_days |-> trading_days_,
     missing_data_days |-> missing_data_days]

NoResult == BacktestResult(<< >>, NoKPI, -1, -1)

\* a fraction r of the account in units of 1 / (FractionScale * account_size)
Units(r, account) == (r[1] * FractionScale * account) \div r[2]

\* _find_candle_index, lines 464-470: the 0-based index of the first bar of
\* the minute of `timestamp`, the last index when there is none
_find_candle_index(candles, timestamp) ==
    LET hits == { i \in DOMAIN candles : candles[i].timestamp = timestamp }
    IN  IF hits = {} THEN Len(candles) - 1
        ELSE (CHOOSE i \in hits : \A j \in hits : i <= j) - 1

\* the bars of one date, as the data service returns them
OpeningBar(d) == [Candle(1, 2, 1, 2, 2) EXCEPT !.timestamp = TimeStamp(d, 9, 30)]

FineBars(d, bars) ==
    [i \in DOMAIN bars |-> [bars[i] EXCEPT !.timestamp = TimeStamp(d, 9, 34 + i)]]

\* two bars below the opening range 1..2, then two bars above it: the gap
\* 1..2 is confirmed on the fourth bar; LONG, entry 1, stop 0, target 4
SetupBars == << Candle(0, 1, 0, 1, 2), Candle(0, 1, 0, 1, 2),
                Candle(2, 3, 2, 3, 2), Candle(2, 3, 2, 3, 2) >>

\* the kinds of date: the setup followed by a bar that touches the target,
\* the stop, both or neither; the setup as the last bars; no setup; bars of
\* one granularity only
DayKinds == {"win", "loss", "both", "flat", "last", "quiet", "only_coarse", "only_fine"}

DayFine(d, kind) ==
    IF kind = "only_coarse" THEN << >>
    ELSE IF kind = "quiet" THEN FineBars(d, SubSeq(SetupBars, 1, 2))
    ELSE IF kind = "win" THEN FineBars(d, Append(SetupBars, Range(4, 4)))
    ELSE IF kind = "loss" THEN FineBars(d, Append(SetupBars, Range(0, 0)))
    ELSE IF kind = "both" THEN FineBars(d, Append(SetupBars, Range(0, 4)))
    ELSE IF kind = "flat" THEN FineBars(d, Append(SetupBars, Range(2, 2)))
    ELSE FineBars(d, SetupBars)

DayCoarse(d, kind) == IF kind = "only_fine" THEN << >> ELSE << OpeningBar(d) >>

\* the dates of the bars fetched: 2024-01-30, 2024-01-31, 2024-02-01, ...
RunDay(i) == Date(2024, 1, 29) + i

RECURSIVE FetchedFine(_, _)
FetchedFine(kinds, n) ==
    IF n = 0 THEN << >> ELSE FetchedFine(kinds, n - 1) \o DayFine(RunDay(n), kinds[n])

RECURSIVE FetchedCoarse(_, _)
FetchedCoarse(kinds, n) ==
    IF n = 0 THEN << >> ELSE FetchedCoarse(kinds, n - 1) \o DayCoarse(RunDay(n), kinds[n])

\* strategy_params: none, or a monthly limit of one trade's risk
RunParams == { [x \in {} |-> 0], [max_monthly_drawdown_pct |-> << 5, 1000 >>] }

RunAccountSizes == {10000}

RunnerLocalsInit ==
    /\ strategy_cfg = DefaultStrategyConfig
    /\ sessions = << >>
    /\ s_idx = 0
    /\ trades = << >>
    /\ trading_days = 0
    /\ missing_days = 0
    /\ current_equity = 0
    /\ last_month = NoMonth
    /\ result = NoResult
    /\ evaluated = {}
    /\ skipped = {}
    /\ notified = << >>

\* a call of run with its config, and what _fetch_candles is going to return
RunnerInit ==
    /\ \E a \in RunAccountSizes, pv \in PipValues, params \in RunParams :
          run_config = BacktestConfig(a, pv, params)
    /\ \E kinds \in UNION { [1..n -> DayKinds] : n \in 0..MaxSessions } :
          fetched = [m1 |-> FetchedFine(kinds, Len(kinds)),
                     m5 |-> FetchedCoarse(kinds, Len(kinds))]
    /\ rpc = "run"
    /\ RunnerLocalsInit

\* the dates of bars fetched with months of data missing: 2024-01-31, then
\* 2025-01-02, 2025-02-03, ...
YearsApartDay(i) == IF i = 1 THEN Date(2024, 1, 31) ELSE Date(2025, i - 1, i)

RECURSIVE FetchedFineYears(_, _)
FetchedFineYears(kinds, n) ==
    IF n = 0 THEN << >>
    ELSE FetchedFineYears(kinds, n - 1) \o DayFine(YearsApartDay(n), kinds[n])

RECURSIVE FetchedCoarseYears(_, _)
FetchedCoarseYears(kinds, n) ==
    IF n = 0 THEN << >>
    ELSE FetchedCoarseYears(kinds, n - 1) \o DayCoarse(YearsApartDay(n), kinds[n])

\* a call of run over a range of more than a year
RunnerYearsInit ==
    /\ \E a \in RunAccountSizes, pv \in PipValues, params \in RunParams :
          run_config = BacktestConfig(a, pv, params)
    /\ \E kinds \in UNION { [1..n -> DayKinds] : n \in 0..MaxSessions } :
          fetched = [m1 |-> FetchedFineYears(kinds, Len(kinds)),
                     m5 |-> FetchedCoarseYears(kinds, Len(kinds))]
    /\ rpc = "run"
    /\ RunnerLocalsInit

\* no call of run
RunnerIdle ==
    /\ run_config = BacktestConfig(0, 1, [x \in {} |-> 0])
    /\ fetched = [m1 |-> << >>, m5 |-> << >>]
    /\ rpc = "idle"
    /\ RunnerLocalsInit

\* what a breaker call of the loop leaves in `notified`
Notified(op, arg, triggered) ==
    [op |-> op, arg |-> arg, session |-> s_idx, triggered |-> triggered.triggered,
     reason |-> triggered.reason]

\* lines 126-138 and 218-229: the early return without fine bars; otherwise
\* the sessions, the locals of the loop and the breaker with its one callback
RunStart ==
    /\ rpc = "run"
    /\ strategy_cfg' = strategy_config(run_config)
    /\ IF fetched.m1 = << >>
       THEN /\ result' = BacktestResult(<< >>, compute(<< >>, run_config.account_size, 0), 0, 0)
            /\ rpc' = "returned"
            /\ UNCHANGED << sessions, current_equity, breakerVars >>
       ELSE /\ sessions' = _split_into_sessions(fetched.m1, fetched.m5)
            /\ current_equity' = run_config.account_size
            /\ max_daily_losses' = strategy_cfg'.max_daily_losses
            /\ max_daily_drawdown_pct' =
                  Units(strategy_cfg'.max_daily_drawdown_pct, run_config.account_size)
            /\ max_monthly_drawdown_pct' =
                  Units(strategy_cfg'.max_monthly_drawdown_pct, run_config.account_size)
            /\ _daily_losses' = 0
            /\ _daily_drawdown_pct' = 0
            /\ _monthly_drawdown_pct' = 0
            /\ _triggered' = FALSE
            /\ _triggered_reason' = NoReason
            /\ _callbacks' = << "returns" >>
            /\ cb_op' = "on_trip"
            /\ cb_arg' = 0
            /\ cb_ret' = None
            /\ cb_raised' = FALSE
            /\ cb_invoked' = << >>
            /\ cb_loss_calls' = 0
            /\ cb_dd_reached' = FALSE
            /\ rpc' = "head"
            /\ UNCHANGED result
    /\ UNCHANGED << run_config, fetched, s_idx, trades, trading_days, missing_days,
                    last_month, evaluated, skipped, notified >>
    /\ UNCHANGED << engineVars, callerVars, simVars, splitVars, kpiVars, serviceVars, bootVars >>

\* lines 231-261: the head of one iteration, up to the call of run_session
SessionHead ==
    /\ rpc = "head"
    /\ s_idx < Len(sessions)
    /\ LET session      == sessions[s_idx + 1]
           session_date == session.date
       IN  IF session.m1 = << >> \/ session.m5 = << >>
           THEN /\ missing_days' = missing_days + 1
                /\ s_idx' = s_idx + 1
                /\ UNCHANGED << trading_days, last_month, rpc, evaluated, skipped, notified >>
                /\ UNCHANGED << breakerVars, engineVars >>
           ELSE LET rollover == last_month # NoMonth /\ MonthOf(session_date) # last_month
                    cleared  == [triggered |-> FALSE, reason |-> NoReason]
                IN  /\ trading_days' = trading_days + 1
                    /\ last_month' = MonthOf(session_date)
                    \* new_month (line 244), then new_day (line 248)
                    /\ ResetDaily
                    /\ _monthly_drawdown_pct' = IF rollover THEN 0 ELSE _monthly_drawdown_pct
                    /\ cb_op' = "new_day"
                    /\ cb_arg' = 0
                    /\ cb_ret' = None
                    /\ cb_raised' = FALSE
                    /\ cb_invoked' = << >>
                    /\ cb_loss_calls' = 0
                    /\ cb_dd_reached' = FALSE
                    /\ UNCHANGED << limits, _callbacks >>
                    /\ notified' = notified
                          \o (IF rollover THEN << Notified("new_month", 0, cleared) >> ELSE << >>)
                          \o << Notified("new_day", 0, cleared) >>
                    \* is_triggered (line 251), on the flag as new_day left it
                    /\ IF _triggered'
                       THEN /\ skipped' = skipped \cup {s_idx}
                            /\ s_idx' = s_idx + 1
                            /\ UNCHANGED << rpc, evaluated, engineVars >>
                       ELSE /\ evaluated' = evaluated \cup {s_idx}
                            /\ m5_candles' = session.m5
                            /\ m1_candles' = session.m1
                            /\ account_size' = current_equity
                            /\ config' = strategy_cfg
                            /\ pc' = "start"
                            /\ idx' = 0
                            /\ orb' = NoORB
                            /\ state' = SessionState
                            /\ atr_m1' = 0
                            /\ avg_vol_m1' = << 1, 1 >>
                            /\ ret' = "pending"
                            /\ signal' = NoSignal
                            /\ m1_access' = FALSE
                            /\ breakout_idx' = -1
                            /\ gap_idx' = -1
                            /\ rpc' = "engine"
                            /\ UNCHANGED << skipped, s_idx >>
                    /\ UNCHANGED missing_days
    /\ UNCHANGED << run_config, strategy_cfg, fetched, sessions, trades, current_equity, result >>
    /\ UNCHANGED << callerVars, simVars, splitVars, kpiVars, serviceVars, bootVars >>

\* record_loss(loss_pct), circuit_breaker.py lines 57-68
FeedLoss(loss_pct) ==
    LET losses == _daily_losses + 1
        dd     == _daily_drawdown_pct + loss_pct
        mdd    == _monthly_drawdown_pct + loss_pct
        c      == _check(losses, dd, mdd)
    IN  /\ _daily_losses' = losses
        /\ _daily_drawdown_pct' = dd
        /\ _monthly_drawdown_pct' = mdd
        /\ _triggered' = c.triggered
        /\ _triggered_reason' = c.reason
        /\ cb_op' = "record_loss"
        /\ cb_arg' = loss_pct
        /\ cb_ret' = c.ret
        /\ cb_raised' = c.raised
        /\ cb_invoked' = cb_invoked \o c.invoked
        /\ cb_loss_calls' = cb_loss_calls + 1
        /\ cb_dd_reached' = (cb_dd_reached \/ dd >= max_daily_drawdown_pct
                                           \/ mdd >= max_monthly_drawdown_pct)
        /\ notified' = Append(notified, Notified("record_loss", loss_pct, c))
        /\ UNCHANGED << limits, _callbacks >>

\* record_win(gain_pct), circuit_breaker.py lines 70-73
FeedWin(gain_pct) ==
    /\ _daily_drawdown_pct' = Max(0, _daily_drawdown_pct - gain_pct)
    /\ cb_op' = "record_win"
    /\ cb_arg' = gain_pct
    /\ cb_ret' = None
    /\ cb_raised' = FALSE
    /\ notified' = Append(notified, Notified("record_win", gain_pct,
                             [triggered |-> _triggered, reason |-> _triggered_reason]))
    /\ UNCHANGED << limits, _daily_losses, _monthly_drawdown_pct, _triggered,
                    _triggered_reason, _callbacks, cb_invoked, cb_loss_calls, cb_dd_reached >>

\* lines 280-287: risk_amount / account_size is risk_per_trade, and
\* pnl_usd / account_size is pnl_usd * FractionScale units
FeedTrade(rec) ==
    LET loss_pct == Units(strategy_cfg.risk_per_trade, run_config.account_size)
    IN  IF is_loss(rec) THEN FeedLoss(loss_pct)
        ELSE IF is_win(rec)
        THEN FeedWin(rec.pnl_usd * FractionScale)
        ELSE UNCHANGED << breakerVars, notified >>

\* lines 263-289: the rest of the iteration, once run_session has returned
SessionTail ==
    /\ rpc = "engine"
    /\ pc = "done"
    /\ IF ret = None
       THEN UNCHANGED << simVars, trades, current_equity, breakerVars, notified >>
       ELSE LET session          == sessions[s_idx + 1]
                confirmation_idx == _find_candle_index(session.m1, signal.timestamp)
                remaining        == IF confirmation_idx >= 0
                                    THEN SubSeq(session.m1, confirmation_idx + 2,
                                                Len(session.m1))
                                    ELSE << >>
                rec              == _simulate_trade(signal, remaining, run_config.pip_value)
            IN  /\ sim_signal' = signal
                /\ remaining_m1' = remaining
                /\ sim_pip_value' = run_config.pip_value
                /\ record' = rec
                /\ trades' = Append(trades, rec)
                /\ current_equity' = current_equity + rec.pnl_usd
                /\ FeedTrade(rec)
    /\ s_idx' = s_idx + 1
    /\ rpc' = "head"
    /\ UNCHANGED << run_config, strategy_cfg, fetched, sessions, trading_days, missing_days,
                    last_month, result, evaluated, skipped >>
    /\ UNCHANGED << engineVars, callerVars, splitVars, kpiVars, serviceVars, bootVars >>

\* lines 146-202, without the bootstrap and the report
RunEnd ==
    /\ rpc = "head"
    /\ s_idx = Len(sessions)
    /\ result' = BacktestResult(trades, compute(trades, run_config.account_size, trading_days),
                                trading_days, missing_days)
    /\ rpc' = "returned"
    /\ UNCHANGED << run_config, strategy_cfg, fetched, sessions, s_idx, trades, trading_days,
                    missing_days, current_equity, last_month, evaluated, skipped, notified >>
    /\ UNCHANGED << breakerVars, engineVars, callerVars, simVars, splitVars, kpiVars, serviceVars, bootVars >>

RunnerNext ==
    \/ RunStart
    \/ SessionHead
    \/ Start
    \/ LoopStep
    \/ LoopEnd
    \/ SessionTail
    \/ RunEnd

(***************************************************************************)
(* strategy_factory.py and simulation_service.py                           *)
(***************************************************************************)
MaxResults == 2         \* results stored by run_backtest

\* the names a caller asks for; the first is registered at import
StrategyNames == {"ORB_FVG_ENGULFING", "VWAP_PULLBACK", "DUMMY", "UNKNOWN_STRATEGY"}

\* the names register is called with
RegisteredLater == {"VWAP_PULLBACK", "DUMMY"}

Returned(value, reason) == [kind |-> "returned", value |-> value, reason |-> reason]

Raised(exception) == [kind |-> "raised", value |-> exception, reason |-> None]

NoOutcome == [kind |-> None, value |-> None, reason |-> None]

ServiceArgs(name, has_m1, has_m5) == [strategy_name |-> name, m1 |-> has_m1, m5 |-> has_m5]

\* StrategyFactory.create that returns None for a name that is not registered.
create_ReturnsNone(name) ==
    IF name \in DOMAIN _registry
    THEN [raised |-> None, engine |-> _registry[name]]
    ELSE [raised |-> None, engine |-> None]

\* StrategyFactory.create, lines 46-52
create(name) ==
    IF name \in DOMAIN _registry
    THEN [raised |-> None, engine |-> _registry[name]]
    ELSE [raised |-> "ValueError", engine |-> None]

\* StrategyFactory.register, lines 60-62, with a class
register ==
    /\ \E name \in RegisteredLater :
          /\ _registry' = [n \in DOMAIN _registry \cup {name} |->
                              IF n = name THEN "engine_class" ELSE _registry[n]]
          /\ svc_args' = ServiceArgs(name, FALSE, FALSE)
    /\ svc_op' = "register"
    /\ svc_outcome' = Returned(None, None)
    /\ svc_registry' = _registry
    /\ UNCHANGED _results
    /\ UNCHANGED << breakerVars, engineVars, callerVars, simVars, splitVars, kpiVars, runnerVars, bootVars >>

\* SimulationService.run_backtest, lines 69-95: the exception of create leaves
\* the method; otherwise the result of the run is stored under a new sim_id
run_backtest ==
    /\ Cardinality(_results) < MaxResults
    /\ \E strategy_name \in StrategyNames :
          LET c == create(strategy_name)
          IN  /\ svc_args' = ServiceArgs(strategy_name, FALSE, FALSE)
              /\ IF c.raised # None
                 THEN /\ svc_outcome' = Raised(c.raised)
                      /\ UNCHANGED _results
                 ELSE LET sim_id == Cardinality(_results) + 1
                      IN  /\ _results' = _results \cup {sim_id}
                          /\ svc_outcome' = Returned("BacktestResult", None)
    /\ svc_op' = "run_backtest"
    /\ svc_registry' = _registry
    /\ UNCHANGED _registry
    /\ UNCHANGED << breakerVars, engineVars, callerVars, simVars, splitVars, kpiVars, runnerVars, bootVars >>

\* SimulationService.get_live_signal, lines 128-164: without bars of both
\* granularities it returns before the lookup
get_live_signal ==
    /\ \E strategy_name \in StrategyNames, has_m1 \in BOOLEAN, has_m5 \in BOOLEAN :
          /\ svc_args' = ServiceArgs(strategy_name, has_m1, has_m5)
          /\ IF ~has_m1 \/ ~has_m5
             THEN svc_outcome' = Returned(None, "Insufficient intraday data for live signal.")
             ELSE LET c == create(strategy_name)
                  IN  IF c.raised # None
                      THEN svc_outcome' = Raised(c.raised)
                      ELSE \/ svc_outcome' =
                                 Returned(None, "No valid setup found in current session.")
                           \/ svc_outcome' = Returned("TradeSignal", "Signal found.")
    /\ svc_op' = "get_live_signal"
    /\ svc_registry' = _registry
    /\ UNCHANGED << _registry, _results >>
    /\ UNCHANGED << breakerVars, engineVars, callerVars, simVars, splitVars, kpiVars, runnerVars, bootVars >>

\* the module as imported: the registry of lines 29-31, no stored result
ServiceIdle ==
    /\ _registry = [n \in {"ORB_FVG_ENGULFING"} |-> "ORBFVGEngine"]
    /\ _results = {}
    /\ svc_op = "import"
    /\ svc_args = ServiceArgs(None, FALSE, FALSE)
    /\ svc_outcome = NoOutcome
    /\ svc_registry = [n \in {"ORB_FVG_ENGULFING"} |-> "ORBFVGEngine"]

ServiceNext ==
    \/ register
    \/ run_backtest
    \/ get_live_signal

(***************************************************************************)
(* bootstrap_analyzer.py: BootstrapAnalyzer                                *)
(*                                                                         *)
(* The native library is not part of the sources: what its run_bootstrap   *)
(* writes into the result is any pair of bounds.                           *)
(***************************************************************************)

\* self._lib after _load_lib, lines 28-48: the library, or None when loading
\* it raised
LibStates == {None, "bootstrap.dll"}

IterationCounts == {0, 1, 10000}

\* the percentiles the native call may write
NativeBounds == {-1, 0, 1}

Interval(lo, hi) == [lo |-> lo, hi |-> hi]

BootstrapStats(error, net_profit_95_ci, max_drawdown_95_ci, iterations, sample_size) ==
    [error |-> error, net_profit_95_ci |-> net_profit_95_ci,
     max_drawdown_95_ci |-> max_drawdown_95_ci, iterations |-> iterations,
     sample_size |-> sample_size]

NoBootstrap == BootstrapStats("pending", Interval(0, 0), Interval(0, 0), 0, 0)

BootIdle ==
    /\ _lib = None
    /\ boot_trades = << >>
    /\ boot_iterations = 0
    /\ boot_ret = NoBootstrap
    /\ boot_trials = 0

\* a BootstrapAnalyzer as constructed, and the arguments of a call
BootInit ==
    /\ _lib \in LibStates
    /\ boot_trades \in UNION { [1..n -> KpiRecords] : n \in 0..MaxTrades }
    /\ boot_iterations \in IterationCounts
    /\ boot_ret = NoBootstrap
    /\ boot_trials = 0

\* run_bootstrap, lines 55-98
run_bootstrap ==
    /\ boot_ret = NoBootstrap
    /\ IF _lib = None
       THEN /\ boot_ret' = BootstrapStats("Bootstrap DLL not loaded", Interval(0, 0),
                                          Interval(0, 0), 0, 0)
            /\ boot_trials' = 0
       ELSE IF boot_trades = << >>
       THEN /\ boot_ret' = BootstrapStats(None, Interval(0, 0), Interval(0, 0), 0, 0)
            /\ boot_trials' = 0
       ELSE /\ \E np_lo \in NativeBounds, np_hi \in NativeBounds,
                  dd_lo \in NativeBounds, dd_hi \in NativeBounds :
                  /\ np_lo <= np_hi
                  /\ dd_lo <= dd_hi
                  /\ boot_ret' = BootstrapStats(None, Interval(np_lo, np_hi),
                                                Interval(dd_lo, dd_hi), boot_iterations,
                                                Len(boot_trades))
            /\ boot_trials' = boot_iterations
    /\ UNCHANGED << _lib, boot_trades, boot_iterations >>
    /\ UNCHANGED << breakerVars, engineVars, callerVars, simVars, splitVars, kpiVars, runnerVars, serviceVars >>

BootNext == run_bootstrap

(***************************************************************************)
(* The specifications                                                      *)
(***************************************************************************)

\* run_session has not been called before
CallerIdle == calls = << >>

SplitIdle ==
    /\ split_m1 = << >>
    /\ split_m5 = << >>
    /\ split_sessions = << >>
    /\ split_done = FALSE

KpiIdle ==
    /\ kpi_trades = << >>
    /\ kpi_initial_equity = 0
    /\ kpi_trading_days = 0
    /\ kpi_result = NoKPI

\* a CircuitBreaker under its callers, no session being evaluated
InitBreaker ==
    /\ BreakerInit /\ EngineIdle
    /\ CallerIdle /\ SimIdle /\ SplitIdle /\ KpiIdle /\ RunnerIdle /\ ServiceIdle /\ BootIdle

SpecBreaker == InitBreaker /\ [][BreakerNext]_vars

\* one call of run_session, beside a breaker with the default thresholds
\* (2 losses, 2 % = 4 units, 10 % = 20 units)
InitEngine ==
    /\ EngineInit /\ BreakerFresh(2, 4, 20)
    /\ CallerIdle /\ SimIdle /\ SplitIdle /\ KpiIdle /\ RunnerIdle /\ ServiceIdle /\ BootIdle

SpecEngine == InitEngine /\ [][EngineNext]_vars

\* one call of _simulate_trade
InitSimulate ==
    /\ SimInit
    /\ BreakerFresh(2, 4, 20) /\ EngineIdle
    /\ CallerIdle /\ SplitIdle /\ KpiIdle /\ RunnerIdle /\ ServiceIdle /\ BootIdle

SpecSimulate == InitSimulate /\ [][SimNext]_vars

(***************************************************************************)
(* Properties of ORBFVGEngine.run_session                                  *)
(***************************************************************************)

\* The fine bar of index j (0-based), and the bars the loop has gone through.
Bar(j) == m1_candles[j + 1]

Processed(j) == j < idx \/ (pc = "done" /\ j = idx /\ idx < Len(m1_candles))

ReturnedInLoop == pc = "done" /\ idx < Len(m1_candles) /\ m1_access

\* Bar j overlaps the gap and is a valid engulfing confirmation.
Confirms(j) ==
    /\ j >= 1
    /\ Bar(j).low <= state.fvg.top
    /\ Bar(j).high >= state.fvg.bottom
    /\ _is_engulfing(Bar(j), Bar(j - 1), state.fvg.direction, atr_m1, avg_vol_m1, config)

\* Bar j goes beyond the opening range against the gap.
RangeBroken(j) ==
    IF state.fvg.direction = "bearish"
    THEN Bar(j).high > orb.high
    ELSE Bar(j).low < orb.low

\* Bar j closes beyond the gap in the direction of the breakout.
ClosesBeyondGap(j) ==
    IF state.fvg.direction = "bearish"
    THEN Bar(j).close < state.fvg.bottom
    ELSE Bar(j).close > state.fvg.top

\* The stop distance |entry - stop| a signal confirmed on bar j would have.
StopDistance(j) ==
    LET window == SubSeq(m1_candles, 1, j + 1)
        lookback == config.swing_lookback
        buffer == (config.buffer_sl_factor[1] * atr_m1) \div config.buffer_sl_factor[2]
    IN  IF state.fvg.direction = "bearish"
        THEN Max(state.fvg.top, _swing_high(window, lookback)) + buffer - state.fvg.top
        ELSE state.fvg.bottom - (Min(state.fvg.bottom, _swing_low(window, lookback)) - buffer)

\* The signal is returned on one of the first N bars after the gap bar, and
\* the loop never goes past bar N + 1.
WithinCountdown ==
    /\ ret = "TradeSignal" =>
          (idx - gap_idx >= 1 /\ idx - gap_idx <= config.wait_retest_max_m1)
    /\ pc = "loop" => idx - gap_idx <= config.wait_retest_max_m1 + 1
    /\ (ReturnedInLoop /\ idx - gap_idx > config.wait_retest_max_m1) => ret = None

\* C1 as claimed: with wait_retest_max_m1 = N, a bar that overlaps the gap and
\* is a valid engulfing confirmation on the k-th bar after the gap bar, k <= N,
\* not breaking the range, yields the signal; from bar N + 1 on the session
\* returns none.
C1_AsClaimed ==
    gap_idx >= 0 =>
        /\ WithinCountdown
        /\ \A j \in 0..(Len(m1_candles) - 1) :
              (/\ Processed(j)
               /\ j - gap_idx >= 1
               /\ j - gap_idx <= config.wait_retest_max_m1
               /\ Confirms(j)
               /\ ~RangeBroken(j))
              => (pc = "done" /\ ret = "TradeSignal" /\ idx = j)

\* C1 (amended): as claimed, for a confirmation whose stop distance is not 0;
\* a confirmation with a stop distance of 0 yields no signal.
C1_RetestCountdown ==
    gap_idx >= 0 =>
        /\ WithinCountdown
        /\ \A j \in 0..(Len(m1_candles) - 1) :
              (/\ Processed(j)
               /\ j - gap_idx >= 1
               /\ j - gap_idx <= config.wait_retest_max_m1
               /\ Confirms(j)
               /\ ~RangeBroken(j))
              => IF StopDistance(j) # 0
                 THEN pc = "done" /\ ret = "TradeSignal" /\ idx = j
                 ELSE ~(ret = "TradeSignal" /\ idx = j)

C1_Witness ==
    /\ ret = "TradeSignal"
    /\ config.wait_retest_max_m1 >= 2
    /\ idx - gap_idx = config.wait_retest_max_m1
    /\ Confirms(idx)

\* The first bar, after bar 0, that _detect_breakout finds valid; -1 if none.
QualifyingBars ==
    { j \in 1..(Len(m1_candles) - 1) :
        _detect_breakout(Bar(j), Bar(j - 1), orb.high, orb.low, avg_vol_m1, config).valid }

FirstQualifying ==
    IF QualifyingBars = {} THEN -1
    ELSE CHOOSE j \in QualifyingBars : \A i \in QualifyingBars : j <= i

\* C2: only the first qualifying bar is accepted as the breakout; the flag,
\* the direction and the gap, once set, never change; without a gap on that
\* bar (which needs two predecessors) the session returns none.
C2_FirstBreakoutOnly ==
    /\ [][ state.breakout_detected =>
              /\ state'.breakout_detected
              /\ state'.breakout_direction = state.breakout_direction
              /\ breakout_idx' = breakout_idx
              /\ (state.fvg = NoFVG /\ idx > breakout_idx) => state'.fvg = NoFVG ]_vars
    /\ [][ state.fvg # NoFVG => (state'.fvg = state.fvg /\ gap_idx' = gap_idx) ]_vars
    /\ [](m1_access =>
            /\ breakout_idx >= 0 => breakout_idx = FirstQualifying
            /\ state.breakout_detected <=> breakout_idx >= 0
            /\ gap_idx >= 0 => (gap_idx = breakout_idx /\ gap_idx >= 2)
            /\ state.fvg # NoFVG <=> gap_idx >= 0
            /\ ret = "TradeSignal" => gap_idx = FirstQualifying
            /\ (pc = "done" /\ state.breakout_detected /\ state.fvg = NoFVG) => ret = None)

\* a session whose first qualifying bar has one predecessor only, followed by
\* a qualifying bar on which a gap would form
C2_Witness ==
    /\ pc = "done"
    /\ ret = None
    /\ breakout_idx = 1
    /\ state.fvg = NoFVG
    /\ \E j \in QualifyingBars :
          /\ j >= 2
          /\ _compute_fvg(Bar(j - 2), Bar(j - 1), Bar(j),
                          _detect_breakout(Bar(j), Bar(j - 1), orb.high, orb.low,
                                           avg_vol_m1, config).direction,
                          atr_m1, config) # NoFVG

\* C3: an opening coarse bar whose range is below min_range_pips makes
\* run_session return none with no fine bar read: no indicator is computed and
\* the loop is not entered.
C3_NarrowRangeShortCircuit ==
    (m5_candles # << >>
       /\ m5_candles[1].high - m5_candles[1].low < config.min_range_pips) =>
        /\ pc \in {"start", "done"}
        /\ ~m1_access
        /\ idx = 0 /\ breakout_idx = -1 /\ gap_idx = -1
        /\ state = SessionState
        /\ pc = "done" => ret = None

C3_Witness ==
    /\ pc = "done"
    /\ ret = None
    /\ m5_candles[1].high - m5_candles[1].low < config.min_range_pips
    /\ Len(m1_candles) >= 4
    /\ \E j \in 2..(Len(m1_candles) - 1) : Bar(j).close < m5_candles[1].low
    /\ ~m1_access

\* C4: while waiting for the retest, a bar that goes beyond the opening range
\* against the gap makes run_session return none on that bar, even when the
\* bar confirms; within the countdown nothing else ends the session without a
\* signal, so a bar that only closes beyond the gap does not.
C4_Invalidation ==
    gap_idx >= 0 =>
        /\ \A j \in 0..(Len(m1_candles) - 1) :
              (Processed(j) /\ j > gap_idx /\ RangeBroken(j))
              => (pc = "done" /\ ret = None /\ idx = j)
        /\ (ReturnedInLoop /\ ret = None /\ idx - gap_idx <= config.wait_retest_max_m1)
              => RangeBroken(idx)
        /\ \A j \in 0..(Len(m1_candles) - 1) :
              (/\ Processed(j)
               /\ j - gap_idx >= 1
               /\ j - gap_idx <= config.wait_retest_max_m1
               /\ ClosesBeyondGap(j)
               /\ ~RangeBroken(j))
              => ~(pc = "done" /\ ret = None /\ idx = j)

\* a bar that breaks the range and confirms at once, with a stop distance
C4_Witness ==
    /\ ReturnedInLoop
    /\ ret = None
    /\ gap_idx >= 0
    /\ idx - gap_idx <= config.wait_retest_max_m1
    /\ RangeBroken(idx)
    /\ Confirms(idx)
    /\ StopDistance(idx) # 0

\* a bar that closes beyond the gap was passed and the signal came after it
C4_WitnessCloseBeyond ==
    /\ ret = "TradeSignal"
    /\ \E j \in (gap_idx + 1)..(idx - 1) : ClosesBeyondGap(j)

(***************************************************************************)
(* Properties of the CircuitBreaker                                        *)
(***************************************************************************)

\* C5: from a fresh or just-reset breaker with max_daily_losses = N, while the
\* running drawdown sums seen by record_loss stay below both drawdown limits,
\* the breaker is tripped exactly from the N-th record_loss call on, and
\* record_loss returns True on the N-th call and False on every other one.
C5_TripsExactlyOnNthLoss ==
    ~cb_dd_reached =>
        /\ _triggered <=> cb_loss_calls >= max_daily_losses
        /\ cb_op = "record_loss" =>
              (cb_ret = "True" <=> cb_loss_calls = max_daily_losses)
        /\ cb_op = "record_loss" /\ cb_ret # "True" => cb_ret = "False"

C5_Witness ==
    /\ cb_op = "record_loss"
    /\ cb_ret = "True"
    /\ ~cb_dd_reached
    /\ max_daily_losses >= 2
    /\ cb_loss_calls = max_daily_losses
    /\ _monthly_drawdown_pct > _daily_drawdown_pct

\* C6: new_day() sets the loss counter and the intraday drawdown to 0, clears
\* the tripped flag and its reason, and leaves the monthly accumulator, the
\* thresholds and the callbacks as they were; new_month() does the same and
\* sets the monthly accumulator to 0.
C6_ResetFrame ==
    [][ cb_op' \in {"new_day", "new_month"} =>
          /\ _daily_losses' = 0
          /\ _daily_drawdown_pct' = 0
          /\ _triggered' = FALSE
          /\ _triggered_reason' = NoReason
          /\ limits' = limits
          /\ _callbacks' = _callbacks
          /\ cb_op' = "new_day" => _monthly_drawdown_pct' = _monthly_drawdown_pct
          /\ cb_op' = "new_month" => _monthly_drawdown_pct' = 0 ]_vars

C6_Witness ==
    /\ cb_op = "new_day"
    /\ _monthly_drawdown_pct >= max_monthly_drawdown_pct
    /\ Len(_callbacks) > 0
    /\ ~_triggered

C8_ReasonPriority ==
    (cb_op = "record_loss" /\ cb_ret = "True") =>
        /\ _daily_losses >= max_daily_losses =>
              _triggered_reason.kind = "Daily loss limit reached"
        /\ (_daily_losses < max_daily_losses
              /\ _daily_drawdown_pct >= max_daily_drawdown_pct) =>
              _triggered_reason.kind = "Intraday drawdown limit"
        /\ _triggered_reason.kind = "Monthly drawdown limit" <=>
              (/\ _daily_losses < max_daily_losses
               /\ _daily_drawdown_pct < max_daily_drawdown_pct)

C8_Witness ==
    /\ cb_op = "record_loss"
    /\ cb_ret = "True"
    /\ _daily_losses >= max_daily_losses
    /\ _daily_drawdown_pct >= max_daily_drawdown_pct
    /\ _monthly_drawdown_pct >= max_monthly_drawdown_pct
    /\ _triggered_reason.kind = "Daily loss limit reached"

\* The number of times callback i was invoked since the last reset.
Invocations(i) == Cardinality({k \in DOMAIN cb_invoked : cb_invoked[k] = i})

\* C9: a tripped breaker stays tripped, with the same reason, under every
\* call other than new_day and new_month; between two resets every callback
\* is invoked at most once, and only by the call that trips the breaker.
C9_StickyTrip ==
    /\ [][ (_triggered /\ cb_op' \notin {"new_day", "new_month"}) =>
              /\ _triggered'
              /\ _triggered_reason' = _triggered_reason
              /\ cb_invoked' = cb_invoked ]_vars
    /\ [][ cb_invoked' # cb_invoked =>
              \/ cb_op' \in {"new_day", "new_month"}
              \/ (cb_op' = "record_loss" /\ ~_triggered /\ _triggered') ]_vars
    /\ [](\A i \in 1..Len(_callbacks) : Invocations(i) <= 1)

C9_Witness ==
    /\ cb_op = "record_loss"
    /\ cb_ret = "False"
    /\ _triggered
    /\ _daily_losses > max_daily_losses
    /\ Len(_callbacks) >= 1
    /\ \A i \in 1..Len(_callbacks) : Invocations(i) = 1

\* C10: when record_loss trips the breaker and some callbacks raise, the call
\* returns True without raising, the breaker is tripped, and every registered
\* callback has been invoked once, in registration order.
C10_CallbacksIsolated ==
    (cb_op = "record_loss" /\ cb_ret # "False") =>
        /\ cb_ret = "True"
        /\ ~cb_raised
        /\ _triggered
        /\ cb_invoked = [i \in 1..Len(_callbacks) |-> i]

C10_Witness ==
    /\ cb_op = "record_loss"
    /\ cb_ret = "True"
    /\ _callbacks = << "raises", "returns" >>
    /\ cb_invoked = << 1, 2 >>

\* one call of ORBKPICalculator.compute
InitKpi ==
    /\ KpiInit
    /\ BreakerFresh(2, 4, 20) /\ EngineIdle
    /\ CallerIdle /\ SimIdle /\ SplitIdle /\ RunnerIdle /\ ServiceIdle /\ BootIdle

SpecKpi == InitKpi /\ [][KpiNext]_vars

\* one call of BacktestRunner._split_into_sessions
InitSplit ==
    /\ SplitInit
    /\ BreakerFresh(2, 4, 20) /\ EngineIdle
    /\ CallerIdle /\ SimIdle /\ KpiIdle /\ RunnerIdle /\ ServiceIdle /\ BootIdle

SpecSplit == InitSplit /\ [][SplitNext]_vars

\* calls of run_session with the same arguments
InitCalls ==
    /\ EngineWideInit /\ BreakerFresh(2, 4, 20)
    /\ CallerIdle /\ SimIdle /\ SplitIdle /\ KpiIdle /\ RunnerIdle /\ ServiceIdle /\ BootIdle

SpecCalls == InitCalls /\ [][CallsNext]_vars

\* one call of run; the breaker is constructed by the run
InitRunner ==
    /\ RunnerInit
    /\ BreakerFresh(2, 4, 20) /\ EngineIdle
    /\ CallerIdle /\ SimIdle /\ SplitIdle /\ KpiIdle /\ ServiceIdle /\ BootIdle

SpecRunner == InitRunner /\ [][RunnerNext]_vars

\* one call of run over a range of more than a year
InitRunnerYears ==
    /\ RunnerYearsInit
    /\ BreakerFresh(2, 4, 20) /\ EngineIdle
    /\ CallerIdle /\ SimIdle /\ SplitIdle /\ KpiIdle /\ ServiceIdle /\ BootIdle

SpecRunnerYears == InitRunnerYears /\ [][RunnerNext]_vars

\* the calls of the service, from the module as imported
InitService ==
    /\ ServiceIdle
    /\ BreakerFresh(2, 4, 20) /\ EngineIdle
    /\ CallerIdle /\ SimIdle /\ SplitIdle /\ KpiIdle /\ RunnerIdle /\ BootIdle

SpecService == InitService /\ [][ServiceNext]_vars

\* one call of run_bootstrap
InitBootstrap ==
    /\ BootInit
    /\ BreakerFresh(2, 4, 20) /\ EngineIdle
    /\ CallerIdle /\ SimIdle /\ SplitIdle /\ KpiIdle /\ RunnerIdle /\ ServiceIdle

SpecBootstrap == InitBootstrap /\ [][BootNext]_vars

(***************************************************************************)
(* Properties of BacktestRunner._simulate_trade                            *)
(***************************************************************************)

\* Bar k of remaining_m1 reaches the target, or the stop, of sim_signal.
TargetTouched(k) ==
    IF sim_signal.direction = "SHORT"
    THEN remaining_m1[k].low <= sim_signal.tp
    ELSE remaining_m1[k].high >= sim_signal.tp

StopTouched(k) ==
    IF sim_signal.direction = "SHORT"
    THEN remaining_m1[k].high >= sim_signal.stop
    ELSE remaining_m1[k].low <= sim_signal.stop

TouchingBars == { k \in DOMAIN remaining_m1 : TargetTouched(k) \/ StopTouched(k) }

FirstTouch == CHOOSE k \in TouchingBars : \A i \in TouchingBars : k <= i

\* C13: the trade is resolved on the earliest bar that touches either level,
\* whatever the later bars are; on that bar the outcome is target-hit if the
\* bar touches the target (also when it touches the stop too) and stop-hit
\* otherwise; with no touching bar the trade is expired.
C13_EarliestBarTargetFirst ==
    record # NoRecord =>
        IF TouchingBars = {}
        THEN record.outcome = "expired"
        ELSE /\ record.exit_timestamp = remaining_m1[FirstTouch].timestamp
             /\ record.outcome = IF TargetTouched(FirstTouch) THEN "win_tp" ELSE "loss_sl"

\* the first touching bar reaches both levels, after a bar that reaches
\* neither and before a bar that reaches the stop only
C13_Witness ==
    /\ record.outcome = "win_tp"
    /\ Len(remaining_m1) = 3
    /\ FirstTouch = 2
    /\ TargetTouched(2) /\ StopTouched(2)
    /\ StopTouched(3) /\ ~TargetTouched(3)

C14_WitnessExpired ==
    /\ record.outcome = "expired"
    /\ Len(remaining_m1) = 2

(***************************************************************************)
(* Properties of ORBKPICalculator.compute                                  *)
(***************************************************************************)

\* C20: on an empty trade list compute returns, whatever the initial equity
\* and the trading-day count, zero trades, wins and losses, a win rate, an
\* expectancy, a profit factor (not infinity), a max drawdown, a Sharpe ratio,
\* an average R, a total R and a CAGR of 0, and the initial equity as final
\* equity.
C20_EmptyTradesZeroed ==
    (kpi_result # NoKPI /\ kpi_trades = << >>) =>
        /\ kpi_result.total_trades = 0
        /\ kpi_result.wins = 0
        /\ kpi_result.losses = 0
        /\ RatioEq(kpi_result.win_rate, << 0, 1 >>)
        /\ RatioEq(kpi_result.expectancy_r, << 0, 1 >>)
        /\ RatioEq(kpi_result.profit_factor, << 0, 1 >>)
        /\ ~RatioEq(kpi_result.profit_factor, Inf)
        /\ RatioEq(kpi_result.max_drawdown_pct, << 0, 1 >>)
        /\ kpi_result.sharpe_ratio = ZeroTerm
        /\ RatioEq(kpi_result.avg_rr_realized, << 0, 1 >>)
        /\ RatioEq(kpi_result.total_r, << 0, 1 >>)
        /\ kpi_result.cagr = ZeroTerm
        /\ RatioEq(kpi_result.final_equity, << kpi_initial_equity, 1 >>)

C20_Witness ==
    /\ kpi_result # NoKPI
    /\ kpi_trades = << >>
    /\ kpi_initial_equity = 10000
    /\ kpi_trading_days = 252
    /\ RatioEq(kpi_result.final_equity, << 10000, 1 >>)

(***************************************************************************)
(* Properties of BacktestRunner._split_into_sessions                       *)
(***************************************************************************)

MinuteOfDay(ts) == ts % 1440

\* the bars of `bars`, in order, that are stamped on day d within lo..hi
\* (minutes of the day)
RECURSIVE BarsOn(_, _, _, _)
BarsOn(bars, d, lo, hi) ==
    IF bars = << >> THEN << >>
    ELSE LET c    == Head(bars)
             rest == BarsOn(Tail(bars), d, lo, hi)
         IN  IF /\ c.timestamp > 0
                /\ c.timestamp \div 1440 = d
                /\ MinuteOfDay(c.timestamp) >= lo
                /\ MinuteOfDay(c.timestamp) <= hi
             THEN << c >> \o rest
             ELSE rest

\* the coarse bars of day d stamped 09:30, the fine bars stamped 09:35..11:00
OpeningBars(d) == BarsOn(split_m5, d, 9 * 60 + 30, 9 * 60 + 30)
WindowBars(d) == BarsOn(split_m1, d, 9 * 60 + 35, 11 * 60)

\* the dates that occur in either input
InputDates ==
    { c.timestamp \div 1440 :
        c \in { split_m1[i] : i \in DOMAIN split_m1 } \cup { split_m5[i] : i \in DOMAIN split_m5 } }
    \ { 0 }

SessionDates == { split_sessions[i].date : i \in DOMAIN split_sessions }

SessionsWellFormed ==
    /\ \A i \in DOMAIN split_sessions : \A j \in DOMAIN split_sessions :
          i < j => split_sessions[i].date < split_sessions[j].date
    /\ \A i \in DOMAIN split_sessions :
          /\ split_sessions[i].m5 = OpeningBars(split_sessions[i].date)
          /\ split_sessions[i].m1 = WindowBars(split_sessions[i].date)

RejectedConfirmation(j) ==
    /\ gap_idx >= 0
    /\ j > gap_idx
    /\ j - gap_idx <= config.wait_retest_max_m1
    /\ Processed(j)
    /\ ~RangeBroken(j)
    /\ Confirms(j)
    /\ StopDistance(j) = 0

\* C16: once a bar passes the overlap and the engulfing checks with a stop
\* distance of 0, the session does not return a signal, neither on that bar
\* nor on a later one.
C16_ZeroStopReturnsNone ==
    (\E j \in 0..(Len(m1_candles) - 1) : RejectedConfirmation(j)) => ret # "TradeSignal"

\* C17: a second call of run_session with the arguments of the first returns
\* what the first returned: none both times, or two signals equal in every
\* field, the id included.
C17_Deterministic ==
    (Len(calls) = 1 /\ pc = "done") =>
        /\ ret = calls[1].ret
        /\ signal = calls[1].signal

(***************************************************************************)
(* Properties of the position size                                         *)
(***************************************************************************)

SizingAccounts == {0, 1, 10000}
SizingRisks == { << 0, 1 >>, << 5, 1000 >>, << 1, 100 >> }
SizingStops == 0..3

\* The signal returned carries its stop distance, not 0, and the position
\* size (account_size x risk_per_trade) / stop distance.
ReturnedSignalSized ==
    ret = "TradeSignal" =>
        /\ signal.risk_pips = Abs(signal.entry - signal.stop)
        /\ signal.risk_pips > 0
        /\ signal.position_size[2] > 0
        /\ signal.position_size[1] * config.risk_per_trade[2] * signal.risk_pips
              = account_size * config.risk_per_trade[1] * signal.position_size[2]

SessionDate(i) == sessions[i + 1].date

\* year and month taken together
CalendarMonth(d) == d \div 31

\* the sessions whose trade tripped the breaker on the monthly limit
MonthlyTrips ==
    { notified[k].session : k \in { n \in DOMAIN notified :
          /\ notified[n].op = "record_loss"
          /\ notified[n].triggered
          /\ notified[n].reason.kind = "Monthly drawdown limit" } }

\* the indices of the sessions that produced a trade
Traded ==
    { i \in 0..(Len(sessions) - 1) :
        \E t \in DOMAIN trades : DateOf(trades[t].signal.timestamp) = SessionDate(i) }

\* C11: a session at whose breaker check the breaker is tripped is skipped
\* without run_session being called, and once the monthly drawdown limit has
\* tripped the breaker no later session of the same calendar month is
\* evaluated or traded.
C11_BreakerGatesSessions ==
    /\ skipped \cap evaluated = {}
    /\ \A i \in MonthlyTrips : \A j \in evaluated \cup Traded :
          j > i => CalendarMonth(SessionDate(j)) # CalendarMonth(SessionDate(i))

\* the feeds of the breaker, in order
Feeds == SelectSeq(notified, LAMBDA n : n.op \in {"record_loss", "record_win"})

\* the fraction risk_per_trade, in the units of the breaker
RiskFraction == Units(strategy_cfg.risk_per_trade, run_config.account_size)

\* the trades that touched a level, in order
Resolved == SelectSeq(trades, LAMBDA t : t.outcome # "expired")

\* C12: the breaker is fed once for every trade that hit its stop or its
\* target and not for an expired trade; record_loss receives risk_per_trade,
\* and record_win receives a fraction computed from risk_per_trade (a whole
\* number of risks up to rr_target), not the realized P&L.
C12_FedFromRiskPerTrade ==
    /\ Len(Feeds) = Len(Resolved)
    /\ \A k \in DOMAIN Feeds :
          /\ Feeds[k].op = (IF is_loss(Resolved[k]) THEN "record_loss" ELSE "record_win")
          /\ Feeds[k].op = "record_loss" => Feeds[k].arg = RiskFraction
          /\ Feeds[k].op = "record_win" =>
                \E r \in 1..strategy_cfg.rr_target : Feeds[k].arg = r * RiskFraction

\* the dates of the fetched bars with an opening coarse bar, with a fine bar
\* of the window
FetchedDates ==
    { DateOf(c.timestamp) :
        c \in { fetched.m1[i] : i \in DOMAIN fetched.m1 }
              \cup { fetched.m5[i] : i \in DOMAIN fetched.m5 } } \ { 0 }

HasOpening(d) == BarsOn(fetched.m5, d, 9 * 60 + 30, 9 * 60 + 30) # << >>

HasWindow(d) == BarsOn(fetched.m1, d, 9 * 60 + 35, 11 * 60) # << >>

OneGranularityDates == { d \in FetchedDates : HasOpening(d) # HasWindow(d) }

BothGranularityDates == { d \in FetchedDates : HasOpening(d) /\ HasWindow(d) }

GrossProfit == SumPnlUsd(SelectRecords(kpi_trades, "win_tp"))

GrossLoss == SumAbsPnlUsd(SelectRecords(kpi_trades, "loss_sl"))

HasWin == \E i \in DOMAIN kpi_trades : is_win(kpi_trades[i])

IsInfinite(x) == x[2] = 0

\* C21: on a trade list that is not empty, profit_factor is +infinity if and
\* only if the gross loss is zero and the list holds a winning trade; with a
\* positive gross loss it is gross profit / gross loss (to 4 decimals).
C21_ProfitFactorInfinite ==
    (kpi_result # NoKPI /\ kpi_trades # << >>) =>
        /\ IsInfinite(kpi_result.profit_factor) <=> (GrossLoss = 0 /\ HasWin)
        /\ GrossLoss > 0 =>
              kpi_result.profit_factor = Round4(<< GrossProfit, GrossLoss >>)

(***************************************************************************)
(* Properties of the equity of a run                                       *)
(***************************************************************************)

\* the orders of n trades
Orders(n) == { f \in [1..n -> 1..n] : \A i \in 1..n : \A j \in 1..n : f[i] = f[j] => i = j }

Reordered(recs, f) == [i \in DOMAIN recs |-> recs[f[i]]]

\* the final equity compute reports for the trades of the run in the order f
FinalEquityIn(f) ==
    compute(Reordered(result.trades, f), run_config.account_size,
            result.trading_days).final_equity

\* C22: the final_equity of the result is the initial equity plus the sum of
\* pnl_usd over the trades of the run, in whatever order compute is given
\* them, and it is the running equity of the session loop after its last
\* trade.
C22_FinalEquity ==
    rpc = "returned" =>
        /\ RatioEq(result.kpis.final_equity,
                   << run_config.account_size + SumPnlUsd(result.trades), 1 >>)
        /\ \A f \in Orders(Len(result.trades)) :
              RatioEq(FinalEquityIn(f), result.kpis.final_equity)
        /\ result.trades # << >> =>
              RatioEq(result.kpis.final_equity, << current_equity, 1 >>)

\* a run of a stopped trade, a trade that reached its target and an expired
\* trade
C22_Witness ==
    /\ rpc = "returned"
    /\ Len(result.trades) = 3
    /\ \E i \in 1..3 : is_loss(result.trades[i])
    /\ \E i \in 1..3 : is_win(result.trades[i])
    /\ \E i \in 1..3 : result.trades[i].outcome = "expired"
    /\ current_equity # run_config.account_size

(***************************************************************************)
(* Properties of the strategy lookup and of the bootstrap analyzer         *)
(***************************************************************************)

\* the last call asked for a strategy that was not registered
UnknownRequested ==
    /\ svc_op \in {"run_backtest", "get_live_signal"}
    /\ svc_args.strategy_name \notin DOMAIN svc_registry

\* C23 as claimed: a request with a strategy name that is not registered
\* returns a no-result value and raises nothing.
C23_AsClaimed ==
    UnknownRequested =>
        /\ svc_outcome.kind = "returned"
        /\ svc_outcome.value = None
        /\ _registry = svc_registry

\* C23 (amended): a request with a strategy name that is not registered
\* raises the ValueError of StrategyFactory.create, except that
\* get_live_signal without bars of both granularities returns its no-signal
\* value before the lookup; the registry is unchanged.
C23_UnknownStrategyRaises ==
    UnknownRequested =>
        /\ IF svc_op = "get_live_signal" /\ (~svc_args.m1 \/ ~svc_args.m5)
           THEN svc_outcome = Returned(None, "Insufficient intraday data for live signal.")
           ELSE svc_outcome = Raised("ValueError")
        /\ _registry = svc_registry

\* a backtest asked with an unknown name, after a backtest that was stored
C23_Witness ==
    /\ UnknownRequested
    /\ svc_op = "run_backtest"
    /\ svc_outcome = Raised("ValueError")
    /\ _results # {}

\* C24: run_bootstrap on an empty trade list returns the intervals [0, 0]
\* for net profit and for max drawdown and runs no trial, whether or not the
\* library was loaded and whatever the iteration count.
C24_EmptyTradesDegenerate ==
    (boot_ret # NoBootstrap /\ boot_trades = << >>) =>
        /\ boot_ret.error = None
        /\ boot_ret.net_profit_95_ci = Interval(0, 0)
        /\ boot_ret.max_drawdown_95_ci = Interval(0, 0)
        /\ boot_trials = 0


(***************************************************************************)
(* Properties of the breakout test and of the returned signal              *)
(***************************************************************************)

\* The loop is about to test the bar at idx as a breakout (lines 83-87).
BreakoutExamined ==
    pc = "loop" /\ idx > 0 /\ idx < Len(m1_candles) /\ state.fvg = NoFVG

\* The mean volume of the (up to) 20 fine bars that end with bar j.
TrailingAvgVolume(j) ==
    compute_avg_volume(LastN(SubSeq(m1_candles, 1, j + 1), 20), 20)

\* Bar j is a breakout of the opening range on the mean volume avg_vol.
Qualifies(j, avg_vol) ==
    _detect_breakout(Bar(j), Bar(j - 1), orb.high, orb.low, avg_vol, config).valid

\* C25: whether fine bar i is accepted as a breakout depends only on the
\* opening range and on the bars at or before i: the bar the loop tests
\* qualifies on the session's mean volume exactly when it qualifies on the
\* mean volume of the (up to) 20 bars trailing it, so the bars after it
\* never change the result.
C25_BreakoutVolumeTrailing ==
    BreakoutExamined =>
        (Qualifies(idx, avg_vol_m1) <=> Qualifies(idx, TrailingAvgVolume(idx)))

\* run_session returned a TradeSignal.
SignalReturned == pc = "done" /\ ret = "TradeSignal"

\* C26: every TradeSignal run_session returns, under a buffer factor that is
\* not negative and a positive rr_target, has its gap top above its gap
\* bottom; is SHORT exactly when the accepted breakout closed below the
\* range low and LONG exactly when it closed above the range high; has, for
\* SHORT, entry = gap top and tp < entry < stop and, for LONG, entry = gap
\* bottom and stop < entry < tp; and has risk_pips = |entry - stop| > 0 and
\* |tp - entry| = rr_target x risk_pips.
C26_SignalWellFormed ==
    (SignalReturned /\ config.buffer_sl_factor[1] >= 0 /\ config.rr_target > 0) =>
        /\ signal.fvg_top > signal.fvg_bottom
        /\ signal.direction \in {"SHORT", "LONG"}
        /\ breakout_idx >= 1
        /\ signal.direction = "SHORT" <=> Bar(breakout_idx).close < orb.low
        /\ signal.direction = "LONG" <=> Bar(breakout_idx).close > orb.high
        /\ signal.direction = "SHORT" =>
              /\ signal.entry = signal.fvg_top
              /\ signal.tp < signal.entry
              /\ signal.entry < signal.stop
        /\ signal.direction = "LONG" =>
              /\ signal.entry = signal.fvg_bottom
              /\ signal.stop < signal.entry
              /\ signal.entry < signal.tp
        /\ signal.risk_pips = Abs(signal.entry - signal.stop)
        /\ signal.risk_pips > 0
        /\ Abs(signal.tp - signal.entry) = config.rr_target * signal.risk_pips

\* A SHORT signal was returned after a breakout below the range, and a LONG
\* signal after a breakout above it.
C26_Witness ==
    /\ SignalReturned
    /\ signal.direction = "SHORT"
    /\ Bar(breakout_idx).close < orb.low
    /\ signal.stop > signal.entry

C26_WitnessLong ==
    /\ SignalReturned
    /\ signal.direction = "LONG"
    /\ Bar(breakout_idx).close > orb.high
    /\ signal.stop < signal.entry

(***************************************************************************)
(* Properties of the session loop                                          *)
(***************************************************************************)

\* the sessions the loop processed: those it called new_day for
ProcessedSessions ==
    { notified[k].session : k \in { n \in DOMAIN notified : notified[n].op = "new_day" } }

\* the positions in `notified` of the calls of op for session i
CallsOf(op, i) ==
    { k \in DOMAIN notified : notified[k].op = op /\ notified[k].session = i }

\* session j is the one processed last before session i
PreviousProcessed(j, i) ==
    /\ j \in ProcessedSessions
    /\ j < i
    /\ \A l \in ProcessedSessions : l < i => l <= j

\* C27: the session loop calls new_month for a processed session exactly
\* when that session falls in another calendar month, year and month taken
\* together, than the session processed before it, never between two
\* sessions of the same calendar month; and new_month, when called, precedes
\* the new_day of that session.
C27_MonthlyResetOnCalendarMonth ==
    \A i \in ProcessedSessions :
        /\ CallsOf("new_month", i) # {} <=>
              \E j \in ProcessedSessions :
                  /\ PreviousProcessed(j, i)
                  /\ CalendarMonth(SessionDate(j)) # CalendarMonth(SessionDate(i))
        /\ \A k \in CallsOf("new_month", i) : \A n \in CallsOf("new_day", i) : k < n

\* the sessions the loop has gone through: s_idx of them, and the one
\* run_session is working on
SessionsCounted == IF rpc = "engine" THEN s_idx + 1 ELSE s_idx

\* the trades are in ascending order of session date, one a date at most
TradesAscending ==
    \A a, b \in DOMAIN trades :
        a < b => DateOf(trades[a].signal.timestamp) < DateOf(trades[b].signal.timestamp)

\* the counts of the loop, while it runs and in the result it returns
LoopCounts ==
    /\ rpc \in {"head", "engine"} =>
          /\ trading_days + missing_days = SessionsCounted
          /\ Len(trades) <= trading_days
          /\ _daily_losses <= 1
          /\ TradesAscending
          /\ \A t \in DOMAIN trades :
                \E i \in evaluated : SessionDate(i) = DateOf(trades[t].signal.timestamp)
    /\ (rpc = "returned" /\ sessions # << >>) =>
          /\ result.trading_days + result.missing_data_days = Len(sessions)
          /\ Len(result.trades) <= result.trading_days
          /\ result.trades = trades
          /\ _daily_losses <= 1
          /\ TradesAscending

\* the rest of an iteration appends one record exactly when run_session
\* returned a signal, and the record is that signal's
OneRecordPerSignal ==
    (rpc = "engine" /\ rpc' = "head") =>
        IF ret = "TradeSignal"
        THEN /\ Len(trades') = Len(trades) + 1
             /\ SubSeq(trades', 1, Len(trades)) = trades
             /\ trades'[Len(trades')].signal = signal
             /\ DateOf(signal.timestamp) = SessionDate(s_idx)
        ELSE trades' = trades

\* C28: over any session list trading_days + missing_days is the number of
\* sessions; every session contributes at most one TradeRecord, so the
\* trades never outnumber the trading days and the breaker's daily loss
\* counter never exceeds 1; one TradeRecord is appended for each signal
\* run_session returned; and the records are in ascending order of session
\* date.
C28_LoopCounts == [] LoopCounts /\ [][OneRecordPerSignal]_vars

\* a run returned with two trades, a missing day and a day's loss counted
C28_Witness ==
    /\ rpc = "returned"
    /\ Len(result.trades) >= 2
    /\ result.missing_data_days >= 1
    /\ result.trading_days + result.missing_data_days = Len(sessions)
    /\ _daily_losses = 1

\* a run returned with a trading day that gave no trade
C28_WitnessNoSignal ==
    /\ rpc = "returned"
    /\ Len(result.trades) >= 1
    /\ result.trading_days > Len(result.trades)

(***************************************************************************)
(* Properties of the recorded profit and loss                              *)
(***************************************************************************)

\* the trades of the run that hit their stop
StopHits == { t \in DOMAIN trades : trades[t].outcome = "loss_sl" }

\* C29: for every TradeRecord of a run that hit its stop, the currency loss
\* applied to the running equity is the amount the position was sized to
\* risk: |pnl_usd| = signal.position_size x signal.risk_pips x pip_value,
\* the risk_per_trade share of the equity that the loop reports to the
\* breaker.
C29_LossIsSizedRisk ==
    \A t \in StopHits :
        LET sig == trades[t].signal
        IN  Abs(trades[t].pnl_usd) * sig.position_size[2]
                = sig.position_size[1] * sig.risk_pips * run_config.pip_value

\* C30: for every TradeRecord that hit its target, the recorded reward is the
\* distance to the signal's target, whatever rr_target the signal was built
\* with: pnl_r x signal.risk_pips = |signal.tp - signal.entry| and
\* pnl_usd = |signal.tp - signal.entry| x pip_value.
C30_RewardIsTargetDistance ==
    (record # NoRecord /\ record.outcome = "win_tp") =>
        /\ record.pnl_r * record.signal.risk_pips
              = Abs(record.signal.tp - record.signal.entry)
        /\ record.pnl_usd = Abs(record.signal.tp - record.signal.entry) * sim_pip_value

====
